---- MODULE Spec2Model ----
(***************************************************************************)
(* Document processing pipeline: job lifecycle (documentProcessor.js,      *)
(* supabaseService.js), the PDF extraction strategy chain and its quality  *)
(* gate (pdfExtractor.js), the image extractor (imageExtractor.js).        *)
(*                                                                         *)
(* A text is a sequence of UTF-16 code units (natural numbers), so that    *)
(* length, trimming, the regular-expression character classes and the      *)
(* cleaning steps are computed as the JavaScript computes them.            *)
(***************************************************************************)
EXTENDS Integers, Sequences, FiniteSets, TLC

(***************************************************************************)
(* Character classes of the regular expressions in the source.             *)
(***************************************************************************)

\* JavaScript \s (and the characters String.prototype.trim removes).
IsSpace(c) ==
    \/ c \in {9, 10, 11, 12, 13, 32, 160, 5760, 8232, 8233, 8239, 8287, 12288, 65279}
    \/ (c >= 8192 /\ c <= 8202)

\* JavaScript \w: [A-Za-z0-9_].
IsWordChar(c) ==
    \/ (c >= 48 /\ c <= 57)
    \/ (c >= 65 /\ c <= 90)
    \/ (c >= 97 /\ c <= 122)
    \/ c = 95

IsUpper(c) == c >= 65 /\ c <= 90
IsLower(c) == c >= 97 /\ c <= 122
IsLetter(c) == IsUpper(c) \/ IsLower(c)
IsDigit(c) == c >= 48 /\ c <= 57

\* . , ! ? ; : ( ) - @ # $ % & * + / = < > [ ] { }
PunctuationCodes ==
    {46, 44, 33, 63, 59, 58, 40, 41, 45, 64, 35, 36, 37, 38, 42, 43, 47, 61, 60, 62,
     91, 93, 123, 125}

\* The class [\w\s.,!?;:()\-@#$%&*+/=<>[\]{}'"] of pdfExtractor.js.
IsReadable(c) ==
    IsWordChar(c) \/ IsSpace(c) \/ c \in PunctuationCodes \/ c \in {39, 34}

\* The class [\w\s.,!?;:()\-@#$%&*+/=<>[\]{}] of imageExtractor.js (no quotes).
IsImageReadable(c) ==
    IsWordChar(c) \/ IsSpace(c) \/ c \in PunctuationCodes

\* /[\x00-\x08\x0B\x0C\x0E-\x1F\x7F-\x9F]/
IsBinaryChar(c) ==
    \/ (c >= 0 /\ c <= 8)
    \/ c \in {11, 12}
    \/ (c >= 14 /\ c <= 31)
    \/ (c >= 127 /\ c <= 159)

\* /[^\x20-\x7E\n\r\t]/
IsEncodedChar(c) == ~((c >= 32 /\ c <= 126) \/ c \in {10, 13, 9})

(***************************************************************************)
(* String primitives.                                                      *)
(***************************************************************************)

\* The definitions below avoid recursion over the characters of a text: an
\* index set or SelectSeq does the scan.

Indices(s) == [i \in 1..Len(s) |-> i]

\* F applied to the value of x.
Apply(F(_), x) == CHOOSE y \in {F(v) : v \in {x}} : TRUE

\* The function f with the value v at k.
Extend(f, k, v) == [x \in DOMAIN f \cup {k} |-> IF x = k THEN v ELSE f[x]]

MinOf(S) == CHOOSE x \in S : \A y \in S : x <= y
MaxOf(S) == CHOOSE x \in S : \A y \in S : x >= y

\* String.prototype.trim
trim(s) ==
    LET Trimmed(v) ==
            IF \A i \in 1..Len(v) : IsSpace(v[i]) THEN <<>>
            ELSE LET first == CHOOSE i \in 1..Len(v) :
                                  ~IsSpace(v[i]) /\ \A k \in 1..(i - 1) : IsSpace(v[k])
                     last == CHOOSE i \in 1..Len(v) :
                                 ~IsSpace(v[i]) /\ \A k \in (i + 1)..Len(v) : IsSpace(v[k])
                 IN  SubSeq(v, first, last)
    IN  Apply(Trimmed, s)

\* Last index of the maximal run of characters satisfying In that starts at i
\* (i - 1 when s[i] does not satisfy it).
RunEnd(s, i, In(_)) ==
    LET stops == {j \in i..Len(s) : ~In(s[j])}
    IN  IF stops = {} THEN Len(s) ELSE MinOf(stops) - 1

IsNotSpace(c) == ~IsSpace(c)

\* The non-empty pieces of text.split(/\s+/): the maximal runs of
\* non-whitespace, in order. (JavaScript also yields an empty piece for a
\* leading or trailing run of whitespace; every use filters on length > 2.)
Words(s) ==
    LET IsStart(i) == ~IsSpace(s[i]) /\ (i = 1 \/ IsSpace(s[i - 1]))
        From(starts) ==
            [k \in 1..Len(starts) |->
                SubSeq(s, starts[k], RunEnd(s, starts[k], IsNotSpace))]
    IN  Apply(From, SelectSeq(Indices(s), IsStart))

\* text.replace(/\s+/g, ' ')
CollapseWhitespace(s) ==
    LET Keep(i) == ~IsSpace(s[i]) \/ i = 1 \/ ~IsSpace(s[i - 1])
        From(kept) ==
            [k \in 1..Len(kept) |-> IF IsSpace(s[kept[k]]) THEN 32 ELSE s[kept[k]]]
    IN  Apply(From, SelectSeq(Indices(s), Keep))

RECURSIVE SumLenTo(_, _)
SumLenTo(ws, n) == IF n = 0 THEN 0 ELSE Len(ws[n]) + SumLenTo(ws, n - 1)

SumLen(words) ==
    LET Sum(ws) == SumLenTo(ws, Len(ws))
    IN  Apply(Sum, words)

RECURSIVE Repeat(_, _)
Repeat(s, n) == IF n = 0 THEN <<>> ELSE s \o Repeat(s, n - 1)

\* \b at the gap before index i (1-based; the gap after the last character is
\* Len(s) + 1): exactly one side is a word character.
WordBoundary(s, i) ==
    LET before == i > 1 /\ i - 1 <= Len(s) /\ IsWordChar(s[i - 1])
        after  == i >= 1 /\ i <= Len(s) /\ IsWordChar(s[i])
    IN  before # after

(***************************************************************************)
(* pdfExtractor.js: quality gate and cleaning.                             *)
(***************************************************************************)

QualityMinLength == 50

\* isTextQualityGood: readableRatio > 0.6 is 5 * readable > 3 * length, and
\* avgWordLength > 2.5 is 2 * sum > 5 * count (0 when there is no word).
isTextQualityGood(text) ==
    IF Len(text) = 0 \/ Len(trim(text)) = 0 THEN FALSE
    ELSE LET readableChars == SelectSeq(text, IsReadable)
             IsLongWord(w) == Len(w) > 2
             words == SelectSeq(Words(text), IsLongWord)
             avgOk == Len(words) > 0 /\ 2 * SumLen(words) > 5 * Len(words)
             hasBinaryContent == \E i \in 1..Len(text) : IsBinaryChar(text[i])
             hasEncodedContent == \E i \in 1..Len(text) : IsEncodedChar(text[i])
         IN  /\ 5 * Len(readableChars) > 3 * Len(text)
             /\ avgOk
             /\ Len(text) > QualityMinLength
             /\ ~hasBinaryContent
             /\ ~hasEncodedContent

\* A match of /\b([A-Z])\s+([A-Z])\b/ starting at i ends at SpacedEnd(s, i).
SpacedEnd(s, i) == RunEnd(s, i + 1, IsSpace) + 1

SpacedCandidate(s, i) ==
    LET k == SpacedEnd(s, i)
    IN  /\ IsUpper(s[i])
        /\ WordBoundary(s, i)
        /\ k > i + 1
        /\ k <= Len(s)
        /\ IsUpper(s[k])
        /\ WordBoundary(s, k + 1)

\* The global scan takes the leftmost match and resumes after it: a candidate
\* is replaced unless the candidate that ends on its first letter was.
RECURSIVE SpacedTaken(_, _)
SpacedTaken(s, i) ==
    /\ SpacedCandidate(s, i)
    /\ ~\E j \in 1..(i - 1) :
           SpacedCandidate(s, j) /\ SpacedEnd(s, j) = i /\ SpacedTaken(s, j)

\* text.replace(/\b([A-Z])\s+([A-Z])\b/g, '$1$2')
FixSpacedCapitals(s) ==
    LET Dropped(p) == \E i \in 1..(p - 1) :
                          IsUpper(s[i]) /\ SpacedEnd(s, i) > p /\ SpacedTaken(s, i)
        Kept(p) == ~Dropped(p)
        From(kept) == [k \in 1..Len(kept) |-> s[kept[k]]]
    IN  Apply(From, SelectSeq(Indices(s), Kept))

cleanExtractedText(text) ==
    IF text = <<>> THEN <<>>
    ELSE CHOOSE cleaned \in
             {FixSpacedCapitals(stripped) :
                 stripped \in {SelectSeq(collapsed, IsReadable) :
                     collapsed \in {trim(spaced) :
                         spaced \in {CollapseWhitespace(text)}}}} : TRUE

(***************************************************************************)
(* Regular-expression scans of the raw buffer (extractTextWithAlternativeOCR*)
(* and extractTextFallback). MatchEndAt(p, s, i) is the last index of the   *)
(* match of pattern p that starts at index i, or 0 when there is none; the  *)
(* choice among backtracking alternatives is the engine's (greedy first).   *)
(***************************************************************************)

\* /[A-Z][a-z]+ [A-Z][a-z]+/
NameMatchEnd(s, i) ==
    LET e1 == RunEnd(s, i + 1, IsLower)
        e2 == RunEnd(s, e1 + 3, IsLower)
    IN  IF /\ IsUpper(s[i])
           /\ e1 >= i + 1
           /\ e1 + 2 <= Len(s)
           /\ s[e1 + 1] = 32
           /\ IsUpper(s[e1 + 2])
           /\ e2 >= e1 + 3
        THEN e2 ELSE 0

\* /\b[A-Za-z]{3,}\b/
WordMatchEnd(s, i) ==
    LET e == RunEnd(s, i, IsLetter)
    IN  IF /\ IsLetter(s[i])
           /\ WordBoundary(s, i)
           /\ e - i + 1 >= 3
           /\ WordBoundary(s, e + 1)
        THEN e ELSE 0

IsDateSeparator(c) == c \in {47, 45}

\* /\b\d{1,2}[\/-]\d{1,2}[\/-]\d{2,4}\b/
DateMatchEnd(s, i) ==
    LET a == RunEnd(s, i, IsDigit)
        b == RunEnd(s, a + 2, IsDigit)
        c == RunEnd(s, b + 2, IsDigit)
    IN  IF /\ IsDigit(s[i])
           /\ WordBoundary(s, i)
           /\ a - i + 1 \in 1..2
           /\ a + 1 <= Len(s) /\ IsDateSeparator(s[a + 1])
           /\ b - (a + 2) + 1 \in 1..2
           /\ b + 1 <= Len(s) /\ IsDateSeparator(s[b + 1])
           /\ c - (b + 2) + 1 \in 2..4
           /\ WordBoundary(s, c + 1)
        THEN c ELSE 0

IsEmailLocalChar(c) == IsLetter(c) \/ IsDigit(c) \/ c \in {46, 95, 37, 43, 45}
IsEmailDomainChar(c) == IsLetter(c) \/ IsDigit(c) \/ c \in {46, 45}
\* [A-Z|a-z]: the bar is a member of the class.
IsEmailTldChar(c) == IsLetter(c) \/ c = 124

\* /\b[A-Za-z0-9._%+-]+@[A-Za-z0-9.-]+\.[A-Z|a-z]{2,}\b/: the domain is
\* greedy, so the last usable dot is taken, then the longest usable ending.
EmailMatchEnd(s, i) ==
    LET l == RunEnd(s, i, IsEmailLocalChar)
        d == RunEnd(s, l + 2, IsEmailDomainChar)
        Ends(p) == {e \in (p + 2)..RunEnd(s, p + 1, IsEmailTldChar) :
                        WordBoundary(s, e + 1)}
        dots == {p \in (l + 3)..d : s[p] = 46 /\ Ends(p) # {}}
    IN  IF /\ IsEmailLocalChar(s[i])
           /\ WordBoundary(s, i)
           /\ l + 1 <= Len(s) /\ s[l + 1] = 64
           /\ dots # {}
        THEN MaxOf(Ends(MaxOf(dots))) ELSE 0

\* /\b[A-Za-z]+\s+[A-Za-z]+\s+[A-Za-z]+\b/
PhraseMatchEnd(s, i) ==
    LET e1 == RunEnd(s, i, IsLetter)
        w1 == RunEnd(s, e1 + 1, IsSpace)
        e2 == RunEnd(s, w1 + 1, IsLetter)
        w2 == RunEnd(s, e2 + 1, IsSpace)
        e3 == RunEnd(s, w2 + 1, IsLetter)
    IN  IF /\ IsLetter(s[i])
           /\ WordBoundary(s, i)
           /\ w1 >= e1 + 1
           /\ e2 >= w1 + 1
           /\ w2 >= e2 + 1
           /\ e3 >= w2 + 1
           /\ WordBoundary(s, e3 + 1)
        THEN e3 ELSE 0

\* textPatterns of extractTextWithAlternativeOCR, in order.
MatchEndAt(p, s, i) ==
    CASE p = 1 -> NameMatchEnd(s, i)
      [] p = 2 -> WordMatchEnd(s, i)
      [] p = 3 -> DateMatchEnd(s, i)
      [] p = 4 -> EmailMatchEnd(s, i)
      [] p = 5 -> PhraseMatchEnd(s, i)

\* text.match(pattern) with the g flag: leftmost match, then resume after it.
RECURSIVE MatchesFrom(_, _, _)
MatchesFrom(s, ends, from) ==
    LET starts == {i \in from..Len(s) : ends[i] > 0}
        Take(i) == <<SubSeq(s, i, ends[i])>> \o MatchesFrom(s, ends, ends[i] + 1)
    IN  IF starts = {} THEN <<>> ELSE Apply(Take, MinOf(starts))

GlobalMatches(p, s) ==
    LET All(ends) == MatchesFrom(s, ends, 1)
    IN  Apply(All, [i \in 1..Len(s) |-> MatchEndAt(p, s, i)])

\* pieces.join(sep)
RECURSIVE JoinFrom(_, _, _)
JoinFrom(pieces, sep, k) ==
    IF k > Len(pieces) THEN <<>>
    ELSE IF k = Len(pieces) THEN pieces[k]
    ELSE pieces[k] \o sep \o JoinFrom(pieces, sep, k + 1)

Join(pieces, sep) ==
    LET All(ps) == JoinFrom(ps, sep, 1)
    IN  Apply(All, pieces)

\* text.split('\n')
SplitLines(s) ==
    LET IsBreak(i) == s[i] = 10
        breaks == SelectSeq(Indices(s), IsBreak)
        n == Len(breaks)
    IN  [k \in 1..(n + 1) |->
            SubSeq(s, IF k = 1 THEN 1 ELSE breaks[k - 1] + 1,
                      IF k <= n THEN breaks[k] - 1 ELSE Len(s))]

\* Buffer analysis of extractTextWithAlternativeOCR (lines 318-343).
RECURSIVE ScanPatterns(_, _)
ScanPatterns(s, p) ==
    IF p > 5 THEN <<>>
    ELSE LET Found(matches) ==
                 IF matches = <<>> THEN <<>> ELSE <<32>> \o Join(matches, <<32>>)
         IN  Apply(Found, GlobalMatches(p, s)) \o ScanPatterns(s, p + 1)

BufferAnalysis(buffer) == Apply(trim, ScanPatterns(buffer, 1))

\* Last resort of extractTextFallback (lines 379-384).
IsPrintable(c) == (c >= 32 /\ c <= 126) \/ c \in {10, 13, 9}

BufferLines(buffer) ==
    LET readableText == SelectSeq(buffer, IsPrintable)
        KeepLine(line) == Len(trim(line)) > 3 /\ \E i \in 1..Len(line) : IsLetter(line[i])
    IN  Join(SelectSeq(SplitLines(readableText), KeepLine), <<32>>)

(***************************************************************************)
(* Outcomes of the external collaborators. An outcome is either a returned *)
(* text or a raised error (ok = FALSE; text then holds error.message).     *)
(***************************************************************************)

Returned(t) == [ok |-> TRUE, text |-> t, why |-> ""]
Raised(m) == [ok |-> FALSE, text |-> m, why |-> "raised"]
\* A rejection whose message is only logged.
Rejected(why) == [ok |-> FALSE, text |-> <<>>, why |-> why]

\* "Hello World Hello World Hello World Hello World Hello World " (60)
HelloText == Repeat(<<72, 101, 108, 108, 111, 32, 87, 111, 114, 108, 100, 32>>, 5)
\* "Hello World " (12): real text, too short for the gate
ShortText == <<72, 101, 108, 108, 111, 32, 87, 111, 114, 108, 100, 32>>
\* "~~~ ~~~" followed by 60 spaces: passes the gate, cleans to " "
TildeText == <<126, 126, 126, 32, 126, 126, 126>> \o Repeat(<<32>>, 60)
\* "Invoice 42 Total due: 100 EUR. " (31): one scanned page as the OCR reads it
PageText ==
    <<73, 110, 118, 111, 105, 99, 101, 32, 52, 50, 32, 84, 111, 116, 97, 108, 32,
      100, 117, 101, 58, 32, 49, 48, 48, 32, 69, 85, 82, 46, 32>>
\* "John Smith born 01/02/1990 " twice, then a line break and two binary bytes
RawBuffer ==
    Repeat(<<74, 111, 104, 110, 32, 83, 109, 105, 116, 104, 32, 98, 111, 114, 110,
             32, 48, 49, 47, 48, 50, 47, 49, 57, 57, 48, 32>>, 2) \o <<10, 1, 233>>
\* "John Smith": all that is readable in an unparseable file
FragmentBuffer == <<74, 111, 104, 110, 32, 83, 109, 105, 116, 104>>
\* "boom"
EngineMessage == <<98, 111, 111, 109>>

(***************************************************************************)
(* What the PDF library, the rasterizer and the OCR engine do with one     *)
(* uploaded PDF: parse[k] is pdfParse's outcome under option set k         *)
(* (1: max 0/normalize, 2: max 0/raw, 3: max 1/normalize, 4: max 1/raw),   *)
(* buffer the raw bytes read as UTF-8, disk whether checkDiskSpace reports *)
(* at least 100 MB, raster the outcome of the two pdf2pic conversions      *)
(* ("ok": the first succeeds, "alt": only the second, "fail": neither),    *)
(* ocr the OCR engine's outcome on each rasterized page.                   *)
(***************************************************************************)

PdfCase(parse, buffer, disk, raster, ocr) ==
    [parse |-> parse, buffer |-> buffer, disk |-> disk, raster |-> raster, ocr |-> ocr]

AllParse(o) == <<o, o, o, o>>

\* A PDF with a text layer.
TextLayerPdf ==
    PdfCase(AllParse(Returned(HelloText)), <<>>, TRUE, "ok", <<Returned(HelloText)>>)
\* A scanned PDF of two pages, both read by the OCR engine.
ScannedPdf ==
    PdfCase(AllParse(Returned(<<>>)), <<>>, TRUE, "ok",
            <<Returned(PageText), Returned(PageText)>>)
\* A scanned PDF whose only page yields too little text; the first converter fails.
PoorScanPdf ==
    PdfCase(AllParse(Returned(<<>>)), <<>>, TRUE, "alt", <<Returned(ShortText)>>)
\* A scanned PDF on which the OCR engine fails on the second of three pages.
PartialScanPdf ==
    PdfCase(AllParse(Returned(ShortText)), <<>>, TRUE, "ok",
            <<Returned(PageText), Raised(EngineMessage), Returned(PageText)>>)
\* A damaged PDF: the PDF library raises, no disk space for the OCR path.
DamagedPdf ==
    PdfCase(AllParse(Raised(EngineMessage)), RawBuffer, FALSE, "fail", <<>>)
\* A PDF the rasterizer cannot convert; its text layer is noise.
NoRasterPdf ==
    PdfCase(AllParse(Returned(TildeText \o <<1>>)), <<>>, TRUE, "fail", <<>>)
\* A text layer of tildes and blanks: acceptable to the gate, blank once cleaned.
TildePdf ==
    PdfCase(AllParse(Returned(TildeText)), <<>>, TRUE, "ok", <<>>)
\* A PDF the rasterizer turns into a blank page.
BlankScanPdf ==
    PdfCase(AllParse(Returned(<<>>)), <<>>, TRUE, "ok", <<Returned(<<32, 10>>)>>)

\* A file neither the PDF library nor the rasterizer can read, with one
\* readable fragment among its bytes.
FragmentPdf ==
    PdfCase(AllParse(Raised(EngineMessage)), FragmentBuffer, TRUE, "fail", <<>>)

\* A scanned PDF of three pages on each of which the OCR engine fails.
UnreadableScanPdf ==
    PdfCase(AllParse(Returned(<<>>)), <<>>, TRUE, "ok",
            <<Raised(EngineMessage), Raised(EngineMessage), Raised(EngineMessage)>>)

PdfCases ==
    {TextLayerPdf, ScannedPdf, PoorScanPdf, PartialScanPdf, DamagedPdf, NoRasterPdf,
     TildePdf, BlankScanPdf, FragmentPdf, UnreadableScanPdf}

(***************************************************************************)
(* pdfExtractor.js: the strategies.                                        *)
(***************************************************************************)

\* tryStandardExtraction: data.text || '', '' when pdfParse raises.
tryStandardExtraction(c) ==
    IF c.parse[1].ok THEN c.parse[1].text ELSE <<>>

\* `${k}`
RECURSIVE Decimal(_)
Decimal(k) ==
    IF k < 10 THEN <<48 + k>> ELSE Decimal(k \div 10) \o <<48 + (k % 10)>>

\* `[OCR failed for page ${k}]\n\n`
OcrFailedMarker(k) ==
    <<91, 79, 67, 82, 32, 102, 97, 105, 108, 101, 100, 32, 102, 111, 114, 32, 112,
      97, 103, 101, 32>> \o Decimal(k) \o <<93, 10, 10>>

OcrPageOutputSkipping(outcome, k) ==
    IF outcome.ok THEN outcome.text \o <<10, 10>> ELSE <<>>

\* One turn of the page loop: what page k adds to fullText.
OcrPageOutput(outcome, k) ==
    IF outcome.ok THEN outcome.text \o <<10, 10>> ELSE OcrFailedMarker(k)

\* fullText after pages 1..n of the loop.
RECURSIVE OcrFullText(_, _)
OcrFullText(ocr, n) ==
    IF n = 0 THEN <<>> ELSE OcrFullText(ocr, n - 1) \o OcrPageOutput(ocr[n], n)

\* extractTextWithOCR: resolves with fullText or rejects.
extractTextWithOCR(c, modulesLoaded) ==
    IF ~modulesLoaded THEN Rejected("OCR modules not available")
    ELSE IF ~c.disk THEN Rejected("Insufficient disk space")
    ELSE IF c.raster = "fail" THEN Rejected("Both conversion methods failed")
    ELSE IF Len(c.ocr) = 0 THEN Rejected("No pages could be extracted")
    ELSE LET Resolve(fullText) ==
                 IF trim(fullText) = <<>> THEN Rejected("OCR failed to extract any text")
                 ELSE Returned(fullText)
         IN  CHOOSE outcome \in {Resolve(fullText) :
                                    fullText \in {OcrFullText(c.ocr, Len(c.ocr))}} : TRUE

\* The pdf-parse attempts of extractTextWithAlternativeOCR: the text of the
\* first attempt from k on that returns readable text, <<>> when none does.
AltAttemptHit(c, k) ==
    /\ c.parse[k].ok
    /\ Len(trim(c.parse[k].text)) > 0
    /\ 2 * Len(SelectSeq(c.parse[k].text, IsReadable)) > Len(c.parse[k].text)
    /\ Len(c.parse[k].text) > 100

extractTextWithAlternativeOCR(c) ==
    LET hits == {k \in 1..4 : AltAttemptHit(c, k)}
    IN  IF hits # {} THEN c.parse[MinOf(hits)].text
        ELSE BufferAnalysis(c.buffer)

\* extractTextFallback: first page with normalized whitespace, then raw; the
\* buffer's printable lines when pdfParse raises.
extractTextFallback(c) ==
    IF ~c.parse[3].ok THEN BufferLines(c.buffer)
    ELSE IF Len(trim(c.parse[3].text)) > 0 THEN c.parse[3].text
    ELSE IF ~c.parse[4].ok THEN BufferLines(c.buffer)
    ELSE c.parse[4].text

\* The test applied to the output of every strategy after the first:
\* text && text.trim().length > 0 && isTextQualityGood(text).
Accepts(text) ==
    Len(text) > 0 /\ Len(trim(text)) > 0 /\ isTextQualityGood(text)

\* "PDF text extraction was not successful. The document may be scanned,
\* encrypted, or corrupted."
PdfNotSuccessful ==
    <<80, 68, 70, 32, 116, 101, 120, 116, 32, 101, 120, 116, 114, 97, 99,
      116, 105, 111, 110, 32, 119, 97, 115, 32, 110, 111, 116, 32, 115, 117,
      99, 99, 101, 115, 115, 102, 117, 108, 46, 32, 84, 104, 101, 32, 100,
      111, 99, 117, 109, 101, 110, 116, 32, 109, 97, 121, 32, 98, 101, 32,
      115, 99, 97, 110, 110, 101, 100, 44, 32, 101, 110, 99, 114, 121, 112,
      116, 101, 100, 44, 32, 111, 114, 32, 99, 111, 114, 114, 117, 112, 116,
      101, 100, 46>>

\* extractTextFromPDF: the whole chain, as the value it returns.
extractTextFromPDF(c, modulesLoaded) ==
    LET Chain(direct, ocr, alt, fallback) ==
            IF isTextQualityGood(direct) THEN cleanExtractedText(direct)
            ELSE IF ocr.ok /\ Accepts(ocr.text) THEN cleanExtractedText(ocr.text)
            ELSE IF ~ocr.ok /\ Accepts(alt) THEN cleanExtractedText(alt)
            ELSE IF Accepts(fallback) THEN cleanExtractedText(fallback)
            ELSE PdfNotSuccessful
    IN  CHOOSE text \in {Chain(direct, ocr, alt, fallback) :
                            direct \in {tryStandardExtraction(c)},
                            ocr \in {extractTextWithOCR(c, modulesLoaded)},
                            alt \in {extractTextWithAlternativeOCR(c)},
                            fallback \in {extractTextFallback(c)}} : TRUE

(***************************************************************************)
(* imageExtractor.js                                                       *)
(***************************************************************************)

\* 'Failed to extract text from image: '
FailedToExtractPrefix ==
    <<70, 97, 105, 108, 101, 100, 32, 116, 111, 32, 101, 120, 116, 114, 97,
      99, 116, 32, 116, 101, 120, 116, 32, 102, 114, 111, 109, 32, 105, 109,
      97, 103, 101, 58, 32>>

\* What the OCR engine does with one uploaded image.
ImageCases ==
    {Returned(HelloText), Returned(<<>>), Returned(<<126, 32, 126>>),
     Raised(EngineMessage), Raised(<<>>)}

\* extractTextFromImage: the cleaned text, or a raised error with its message.
extractTextFromImage(engine) ==
    IF engine.ok
    THEN CHOOSE outcome \in
             {Returned(SelectSeq(collapsed, IsImageReadable)) :
                 collapsed \in {trim(spaced) :
                     spaced \in {CollapseWhitespace(engine.text)}}} : TRUE
    ELSE Raised(FailedToExtractPrefix \o engine.text)

(***************************************************************************)
(* utils.js, aiProcessor.js                                                *)
(***************************************************************************)

None == <<>>
Some(x) == <<x>>

Date(y, m, d) == [y |-> y, m |-> m, d |-> d]

\* calculateAge / calculateAgeFromDob, on the calendar fields of the two dates.
calculateAge(birthDate, today) ==
    LET age == today.y - birthDate.y
        monthDiff == today.m - birthDate.m
    IN  IF monthDiff < 0 \/ (monthDiff = 0 /\ today.d < birthDate.d)
        THEN age - 1 ELSE age

(***************************************************************************)
(* aiProcessor.js: the regular expressions of the local extractor.  A      *)
(* pattern is a tree; Ends lists the positions at which a match starting   *)
(* at i can end, in the order in which backtracking tries them, so that    *)
(* the first is the end of the match.                                      *)
(***************************************************************************)

Chr(set) == [op |-> "chr", set |-> set]
Cat(nodes) == [op |-> "cat", of |-> nodes]
Alt(nodes) == [op |-> "alt", of |-> nodes]
\* x{lo,hi}, greedy
Between(node, lo, hi) == [op |-> "rep", of |-> <<node>>, lo |-> lo, bounded |-> TRUE, hi |-> hi]
\* x{lo,}, greedy
AtLeast(node, lo) == [op |-> "rep", of |-> <<node>>, lo |-> lo, bounded |-> FALSE, hi |-> lo]
Opt(node) == Between(node, 0, 1)
\* \b
WordEdge == [op |-> "edge"]

Digits == 48..57
Uppers == 65..90
Lowers == 97..122
Letters == Uppers \cup Lowers
\* \w
WordChars == Digits \cup Letters \cup {95}
\* \s
Spaces == {9, 10, 11, 12, 13, 32, 160, 5760, 8232, 8233, 8239, 8287, 12288, 65279} \cup (8192..8202)

\* One letter under the i flag.
AnyCase(c) ==
    IF c \in Uppers THEN Chr({c, c + 32}) ELSE IF c \in Lowers THEN Chr({c, c - 32}) ELSE Chr({c})

\* A literal word under the i flag.
Word(text) == Cat([k \in 1..Len(text) |-> AnyCase(text[k])])

\* The list without the repetitions of an earlier element.
Dedup(list) ==
    LET First(k) == \A m \in 1..(k - 1) : list[m] # list[k]
        From(kept) == [k \in 1..Len(kept) |-> list[kept[k]]]
    IN  Apply(From, SelectSeq(Indices(list), First))

RECURSIVE Ends(_, _, _)
RECURSIVE Through(_, _, _, _)
RECURSIVE Repeated(_, _, _, _)

\* The nodes from the k-th on, one after the other, from each of the
\* positions reached so far.
Through(nodes, k, s, reached) ==
    LET Rest(ends) == Through(nodes, k + 1, s, ends)
    IN  IF k > Len(nodes) THEN reached
        ELSE Apply(Rest, Dedup(Join([m \in 1..Len(reached) |->
                                        Ends(nodes[k], s, reached[m])], <<>>)))

\* Greedy repetition of one character class: the longest run first.
RepeatedChr(node, s, i) ==
    LET stops == {j \in i..Len(s) : s[j] \notin node.of[1].set}
        run == (IF stops = {} THEN Len(s) + 1 ELSE MinOf(stops)) - i
        top == IF node.bounded /\ node.hi < run THEN node.hi ELSE run
    IN  [k \in 1..(top - node.lo + 1) |-> i + top - k + 1]

\* Greedy repetition: one more turn is tried before stopping here.
Repeated(node, s, i, count) ==
    LET More(ends) ==
            Join([m \in 1..Len(ends) |->
                     IF ends[m] > i THEN Repeated(node, s, ends[m], count + 1) ELSE <<>>], <<>>)
        more == IF node.bounded /\ count >= node.hi THEN <<>>
                ELSE Apply(More, Ends(node.of[1], s, i))
        here == IF count >= node.lo THEN <<i>> ELSE <<>>
    IN  IF node.of[1].op = "chr" THEN RepeatedChr(node, s, i) ELSE Dedup(more \o here)

Ends(node, s, i) ==
    CASE node.op = "chr" -> IF i <= Len(s) /\ s[i] \in node.set THEN <<i + 1>> ELSE <<>>
      [] node.op = "edge" -> IF WordBoundary(s, i) THEN <<i>> ELSE <<>>
      [] node.op = "cat" -> Through(node.of, 1, s, <<i>>)
      [] node.op = "alt" ->
            Dedup(Join([k \in 1..Len(node.of) |-> Ends(node.of[k], s, i)], <<>>))
      [] node.op = "rep" -> Repeated(node, s, i, 0)

\* The last index of the match that starts at i, 0 when there is none.
RegexEndAt(node, s, i) ==
    LET End(ends) == IF ends = <<>> THEN 0 ELSE ends[1] - 1
    IN  Apply(End, Ends(node, s, i))

\* text.match(pattern) with the g flag; the patterns match no empty text.
MatchAll(node, s) ==
    LET All(ends) == MatchesFrom(s, ends, 1)
    IN  Apply(All, [i \in 1..Len(s) |-> RegexEndAt(node, s, i)])

\* text.match(pattern) without the g flag: the leftmost match, if any.
MatchFirst(node, s) ==
    LET First(found) == IF found = <<>> THEN None ELSE Some(found[1])
    IN  Apply(First, MatchAll(node, s))

\* /\b[A-Za-z0-9._%+-]+@[A-Za-z0-9.-]+\.[A-Z|a-z]{2,}\b/ (line 118)
EmailPattern ==
    Cat(<<WordEdge,
          AtLeast(Chr(Letters \cup Digits \cup {46, 95, 37, 43, 45}), 1),
          Chr({64}),
          AtLeast(Chr(Letters \cup Digits \cup {46, 45}), 1),
          Chr({46}),
          AtLeast(Chr(Letters \cup {124}), 2),
          WordEdge>>)

\* /\b(\+\d{1,2}\s?)?\(?\d{3}\)?[\s.-]?\d{3}[\s.-]?\d{4}\b/ (line 119)
PhonePattern ==
    Cat(<<WordEdge,
          Opt(Cat(<<Chr({43}), Between(Chr(Digits), 1, 2), Opt(Chr(Spaces))>>)),
          Opt(Chr({40})),
          Between(Chr(Digits), 3, 3),
          Opt(Chr({41})),
          Opt(Chr(Spaces \cup {46, 45})),
          Between(Chr(Digits), 3, 3),
          Opt(Chr(Spaces \cup {46, 45})),
          Between(Chr(Digits), 4, 4),
          WordEdge>>)

\* /\b\d{3}[-]?\d{2}[-]?\d{4}\b/ (line 120)
IdPattern ==
    Cat(<<WordEdge,
          Between(Chr(Digits), 3, 3), Opt(Chr({45})),
          Between(Chr(Digits), 2, 2), Opt(Chr({45})),
          Between(Chr(Digits), 4, 4),
          WordEdge>>)

\* The datePatterns of extractDatesFromText (lines 147-151):
\* /\b\d{1,2}[\/-]\d{1,2}[\/-]\d{2,4}\b/g,
\* /\b(?:Jan|Feb|Mar|Apr|May|Jun|Jul|Aug|Sep|Oct|Nov|Dec)[a-z]* \d{1,2},? \d{4}\b/gi,
\* /\b\d{4}[\/-]\d{1,2}[\/-]\d{1,2}\b/g
datePatterns ==
    <<Cat(<<WordEdge,
            Between(Chr(Digits), 1, 2), Chr({47, 45}),
            Between(Chr(Digits), 1, 2), Chr({47, 45}),
            Between(Chr(Digits), 2, 4),
            WordEdge>>),
      Cat(<<WordEdge,
            Alt(<<Word(<<74, 97, 110>>), Word(<<70, 101, 98>>), Word(<<77, 97, 114>>), Word(<<65, 112, 114>>), Word(<<77, 97, 121>>), Word(<<74, 117, 110>>), Word(<<74, 117, 108>>), Word(<<65, 117, 103>>), Word(<<83, 101, 112>>), Word(<<79, 99, 116>>), Word(<<78, 111, 118>>), Word(<<68, 101, 99>>)>>),
            AtLeast(Chr(Letters), 0), Chr({32}),
            Between(Chr(Digits), 1, 2), Opt(Chr({44})), Chr({32}),
            Between(Chr(Digits), 4, 4),
            WordEdge>>),
      Cat(<<WordEdge,
            Between(Chr(Digits), 4, 4), Chr({47, 45}),
            Between(Chr(Digits), 1, 2), Chr({47, 45}),
            Between(Chr(Digits), 1, 2),
            WordEdge>>)>>

\* The addressPatterns of extractAddressesFromText (lines 166-170), all
\* with the flags g and i:
\* /\b\d+\s+[\w\s]+,?\s+(?:Ave|St|Rd|Blvd|Dr|Ln)\.?,?\s+[\w\s]+,?\s+[A-Z]{2},?\s+\d{5}\b/,
\* /\bP\.?O\.?\s+Box\s+\d+\b/,
\* /\b\d+\s+[\w\s]+\s+(?:Street|Avenue|Road|Boulevard|Drive|Lane)\b/
addressPatterns ==
    <<Cat(<<WordEdge,
            AtLeast(Chr(Digits), 1), AtLeast(Chr(Spaces), 1),
            AtLeast(Chr(WordChars \cup Spaces), 1), Opt(Chr({44})), AtLeast(Chr(Spaces), 1),
            Alt(<<Word(<<65, 118, 101>>), Word(<<83, 116>>), Word(<<82, 100>>), Word(<<66, 108, 118, 100>>), Word(<<68, 114>>), Word(<<76, 110>>)>>),
            Opt(Chr({46})), Opt(Chr({44})), AtLeast(Chr(Spaces), 1),
            AtLeast(Chr(WordChars \cup Spaces), 1), Opt(Chr({44})), AtLeast(Chr(Spaces), 1),
            Between(Chr(Letters), 2, 2), Opt(Chr({44})), AtLeast(Chr(Spaces), 1),
            Between(Chr(Digits), 5, 5),
            WordEdge>>),
      Cat(<<WordEdge,
            AnyCase(80), Opt(Chr({46})), AnyCase(79), Opt(Chr({46})),
            AtLeast(Chr(Spaces), 1), Word(<<66, 111, 120>>), AtLeast(Chr(Spaces), 1),
            AtLeast(Chr(Digits), 1),
            WordEdge>>),
      Cat(<<WordEdge,
            AtLeast(Chr(Digits), 1), AtLeast(Chr(Spaces), 1),
            AtLeast(Chr(WordChars \cup Spaces), 1), AtLeast(Chr(Spaces), 1),
            Alt(<<Word(<<83, 116, 114, 101, 101, 116>>), Word(<<65, 118, 101, 110, 117, 101>>), Word(<<82, 111, 97, 100>>), Word(<<66, 111, 117, 108, 101, 118, 97, 114, 100>>), Word(<<68, 114, 105, 118, 101>>), Word(<<76, 97, 110, 101>>)>>),
            WordEdge>>)>>

SliceAll(list, n) == list

\* dates.slice(0, 5), addresses.slice(0, 3)
Slice(list, n) == SubSeq(list, 1, IF Len(list) < n THEN Len(list) ELSE n)

\* patterns.forEach(pattern => { const matches = text.match(pattern);
\* if (matches) found.push(...matches); })
MatchesOfAll(patterns, text) ==
    Join([k \in 1..Len(patterns) |-> MatchAll(patterns[k], text)], <<>>)

MaxDates == 5
MaxAddresses == 3

\* extractDatesFromText (lines 146-160)
extractDatesFromText(text) == Slice(MatchesOfAll(datePatterns, text), MaxDates)

\* extractAddressesFromText (lines 165-180)
extractAddressesFromText(text) == Slice(MatchesOfAll(addressPatterns, text), MaxAddresses)


(***************************************************************************)
(* aiProcessor.js: JavaScript values, JSON.parse and processWithAI.  A     *)
(* value is its type with: the text of a string, the source text of a      *)
(* number, the own properties of an object or an array by name.            *)
(***************************************************************************)

\* The UTF-16 code units of the property names and string literals of
\* aiProcessor.js.
Chars(text) ==
    CASE text = "personalInfo" ->
             <<112, 101, 114, 115, 111, 110, 97, 108, 73, 110, 102, 111>>
      [] text = "fullName" ->
             <<102, 117, 108, 108, 78, 97, 109, 101>>
      [] text = "dateOfBirth" ->
             <<100, 97, 116, 101, 79, 102, 66, 105, 114, 116, 104>>
      [] text = "age" ->
             <<97, 103, 101>>
      [] text = "contactInfo" ->
             <<99, 111, 110, 116, 97, 99, 116, 73, 110, 102, 111>>
      [] text = "emails" ->
             <<101, 109, 97, 105, 108, 115>>
      [] text = "phoneNumbers" ->
             <<112, 104, 111, 110, 101, 78, 117, 109, 98, 101, 114, 115>>
      [] text = "addresses" ->
             <<97, 100, 100, 114, 101, 115, 115, 101, 115>>
      [] text = "identificationNumbers" ->
             <<105, 100, 101, 110, 116, 105, 102, 105, 99, 97, 116, 105, 111, 110, 78,
               117, 109, 98, 101, 114, 115>>
      [] text = "keyDates" ->
             <<107, 101, 121, 68, 97, 116, 101, 115>>
      [] text = "summary" ->
             <<115, 117, 109, 109, 97, 114, 121>>
      [] text = "note" ->
             <<110, 111, 116, 101>>
      [] text = "rawResponse" ->
             <<114, 97, 119, 82, 101, 115, 112, 111, 110, 115, 101>>
      [] text = "error" ->
             <<101, 114, 114, 111, 114>>
      [] text = "extractedData" ->
             <<101, 120, 116, 114, 97, 99, 116, 101, 100, 68, 97, 116, 97>>
      [] text = "Extracted from document" ->
             <<69, 120, 116, 114, 97, 99, 116, 101, 100, 32, 102, 114, 111, 109, 32, 100,
               111, 99, 117, 109, 101, 110, 116>>
      [] text = "This is a mock AI extraction demonstrating structured data extraction capabilities. Provide a real Gemini API key for actual AI processing." ->
             <<84, 104, 105, 115, 32, 105, 115, 32, 97, 32, 109, 111, 99, 107, 32, 65,
               73, 32, 101, 120, 116, 114, 97, 99, 116, 105, 111, 110, 32, 100, 101, 109,
               111, 110, 115, 116, 114, 97, 116, 105, 110, 103, 32, 115, 116, 114, 117,
               99, 116, 117, 114, 101, 100, 32, 100, 97, 116, 97, 32, 101, 120, 116, 114,
               97, 99, 116, 105, 111, 110, 32, 99, 97, 112, 97, 98, 105, 108, 105, 116,
               105, 101, 115, 46, 32, 80, 114, 111, 118, 105, 100, 101, 32, 97, 32, 114,
               101, 97, 108, 32, 71, 101, 109, 105, 110, 105, 32, 65, 80, 73, 32, 107,
               101, 121, 32, 102, 111, 114, 32, 97, 99, 116, 117, 97, 108, 32, 65, 73,
               32, 112, 114, 111, 99, 101, 115, 115, 105, 110, 103, 46>>
      [] text = "Mock data - real AI processing requires GEMINI_API_KEY" ->
             <<77, 111, 99, 107, 32, 100, 97, 116, 97, 32, 45, 32, 114, 101, 97, 108, 32,
               65, 73, 32, 112, 114, 111, 99, 101, 115, 115, 105, 110, 103, 32, 114, 101,
               113, 117, 105, 114, 101, 115, 32, 71, 69, 77, 73, 78, 73, 95, 65, 80, 73,
               95, 75, 69, 89>>
      [] text = "AI response could not be parsed as JSON" ->
             <<65, 73, 32, 114, 101, 115, 112, 111, 110, 115, 101, 32, 99, 111, 117, 108,
               100, 32, 110, 111, 116, 32, 98, 101, 32, 112, 97, 114, 115, 101, 100, 32,
               97, 115, 32, 74, 83, 79, 78>>
      [] text = "true" ->
             <<116, 114, 117, 101>>
      [] text = "false" ->
             <<102, 97, 108, 115, 101>>
      [] text = "null" ->
             <<110, 117, 108, 108>>

JValue(type, value) == [type |-> type, value |-> value]
Undefined == JValue("undefined", <<>>)
Null == JValue("null", <<>>)
String(text) == JValue("string", text)
Number(n) == JValue("number", Decimal(n))

\* { name: value, ... }; of two values for one name the later stays.
Object(pairs) ==
    JValue("object",
           [name \in {pairs[m][1] : m \in DOMAIN pairs} |->
               pairs[MaxOf({m \in DOMAIN pairs : pairs[m][1] = name})][2]])

\* [ item, ... ]: the items by their index.
Array(items) ==
    JValue("array",
           [name \in {Decimal(m - 1) : m \in DOMAIN items} |->
               items[CHOOSE m \in DOMAIN items : Decimal(m - 1) = name]])

Strings(texts) == Array([m \in DOMAIN texts |-> String(texts[m])])

IsObject(v) == v.type \in {"object", "array"}

\* value.name
Get(v, name) == IF IsObject(v) /\ name \in DOMAIN v.value THEN v.value[name] ELSE Undefined

\* value.name = x; on a primitive the assignment is dropped (the module is
\* not in strict mode).
Set(v, name, x) == IF IsObject(v) THEN JValue(v.type, Extend(v.value, name, x)) ELSE v

\* The number is not zero: a digit of its mantissa is not 0.
NonZero(lexeme) ==
    LET exponents == {i \in 1..Len(lexeme) : lexeme[i] \in {69, 101}}
        last == IF exponents = {} THEN Len(lexeme) ELSE MinOf(exponents) - 1
    IN  \E i \in 1..last : lexeme[i] \in 49..57

\* ToBoolean
Truthy(v) ==
    CASE v.type \in {"undefined", "null"} -> FALSE
      [] v.type = "boolean" -> v.value
      [] v.type = "string" -> v.value # <<>>
      [] v.type = "number" -> NonZero(v.value)
      [] OTHER -> TRUE

\* JSON white space: space, tab, line feed, carriage return.
JsonSpaces == {32, 9, 10, 13}

SkipSpaces(s, i) ==
    LET stops == {j \in i..Len(s) : s[j] \notin JsonSpaces}
    IN  IF stops = {} THEN Len(s) + 1 ELSE MinOf(stops)

StartsWith(s, i, text) ==
    i >= 1 /\ i + Len(text) - 1 <= Len(s) /\ SubSeq(s, i, i + Len(text) - 1) = text

At(s, i, c) == i <= Len(s) /\ s[i] = c

Parsed(value, next) == [ok |-> TRUE, value |-> value, next |-> next]
SyntaxError == [ok |-> FALSE, value |-> Undefined, next |-> 0]

\* \" \\ \/ \b \f \n \r \t
Escapes ==
    [c \in {34, 92, 47, 98, 102, 110, 114, 116} |->
        CASE c = 98 -> 8 [] c = 102 -> 12 [] c = 110 -> 10 [] c = 114 -> 13
          [] c = 116 -> 9 [] OTHER -> c]

HexDigit(c) ==
    IF c \in Digits THEN c - 48 ELSE IF c \in 97..102 THEN c - 87
    ELSE IF c \in 65..70 THEN c - 55 ELSE 0 - 1

\* The rest of a string literal, after its opening quote.
RECURSIVE StringFrom(_, _, _)
StringFrom(s, i, text) ==
    IF i > Len(s) \/ s[i] < 32 THEN SyntaxError
    ELSE IF s[i] = 34 THEN Parsed(String(text), i + 1)
    ELSE IF s[i] # 92 THEN StringFrom(s, i + 1, Append(text, s[i]))
    ELSE IF i + 1 <= Len(s) /\ s[i + 1] \in DOMAIN Escapes
    THEN StringFrom(s, i + 2, Append(text, Escapes[s[i + 1]]))
    ELSE IF i + 5 <= Len(s) /\ s[i + 1] = 117 /\ \A k \in 2..5 : HexDigit(s[i + k]) >= 0
    THEN StringFrom(s, i + 6,
                    Append(text, 4096 * HexDigit(s[i + 2]) + 256 * HexDigit(s[i + 3])
                                   + 16 * HexDigit(s[i + 4]) + HexDigit(s[i + 5])))
    ELSE SyntaxError

\* -?(0|[1-9]\d*)(\.\d+)?([eE][+-]?\d+)?
JsonNumber ==
    Cat(<<Opt(Chr({45})),
          Alt(<<Chr({48}), Cat(<<Chr(49..57), AtLeast(Chr(Digits), 0)>>)>>),
          Opt(Cat(<<Chr({46}), AtLeast(Chr(Digits), 1)>>)),
          Opt(Cat(<<Chr({69, 101}), Opt(Chr({43, 45})), AtLeast(Chr(Digits), 1)>>))>>)

RECURSIVE ParseValue(_, _)
RECURSIVE ParseMembers(_, _, _)
RECURSIVE ParseElements(_, _, _)

\* The members of an object from the name at i on; pairs are those read.
ParseMembers(s, i, pairs) ==
    LET AfterName(name) ==
            LET colon == SkipSpaces(s, name.next)
                AfterValue(member) ==
                    LET all == Append(pairs, <<name.value.value, member.value>>)
                        k == SkipSpaces(s, member.next)
                    IN  IF ~member.ok THEN SyntaxError
                        ELSE IF At(s, k, 44) THEN ParseMembers(s, SkipSpaces(s, k + 1), all)
                        ELSE IF At(s, k, 125) THEN Parsed(Object(all), k + 1)
                        ELSE SyntaxError
            IN  IF ~name.ok \/ ~At(s, colon, 58) THEN SyntaxError
                ELSE Apply(AfterValue, ParseValue(s, colon + 1))
    IN  IF ~At(s, i, 34) THEN SyntaxError
        ELSE Apply(AfterName, StringFrom(s, i + 1, <<>>))

\* The elements of an array from the one at i on; items are those read.
ParseElements(s, i, items) ==
    LET AfterValue(element) ==
            LET all == Append(items, element.value)
                k == SkipSpaces(s, element.next)
            IN  IF ~element.ok THEN SyntaxError
                ELSE IF At(s, k, 44) THEN ParseElements(s, k + 1, all)
                ELSE IF At(s, k, 93) THEN Parsed(Array(all), k + 1)
                ELSE SyntaxError
    IN  Apply(AfterValue, ParseValue(s, i))

ParseValue(s, from) ==
    LET i == SkipSpaces(s, from)
        inside == SkipSpaces(s, i + 1)
        numberEnd == RegexEndAt(JsonNumber, s, i)
    IN  IF i > Len(s) THEN SyntaxError
        ELSE IF s[i] = 123
        THEN IF At(s, inside, 125) THEN Parsed(Object(<<>>), inside + 1)
             ELSE ParseMembers(s, inside, <<>>)
        ELSE IF s[i] = 91
        THEN IF At(s, inside, 93) THEN Parsed(Array(<<>>), inside + 1)
             ELSE ParseElements(s, inside, <<>>)
        ELSE IF s[i] = 34 THEN StringFrom(s, i + 1, <<>>)
        ELSE IF StartsWith(s, i, Chars("true")) THEN Parsed(JValue("boolean", TRUE), i + 4)
        ELSE IF StartsWith(s, i, Chars("false")) THEN Parsed(JValue("boolean", FALSE), i + 5)
        ELSE IF StartsWith(s, i, Chars("null")) THEN Parsed(Null, i + 4)
        ELSE IF numberEnd > 0 THEN Parsed(JValue("number", SubSeq(s, i, numberEnd)), numberEnd + 1)
        ELSE SyntaxError

\* JSON.parse(text): the value, or a SyntaxError.
JsonParse(text) ==
    LET Whole(r) == IF r.ok /\ SkipSpaces(text, r.next) > Len(text) THEN r ELSE SyntaxError
    IN  Apply(Whole, ParseValue(text, 1))

\* "```json\n" and "\n```"
FenceOpen == <<96, 96, 96, 106, 115, 111, 110, 10>>
FenceClose == <<10, 96, 96, 96>>

\* aiText.match(/```json\n([\s\S]*?)\n```/): the leftmost opening fence
\* that is followed by a closing fence, up to the nearest such closing
\* fence; <<match[0], match[1]>>.
FencedMatch(aiText) ==
    LET Closings(i) == {k \in (i + Len(FenceOpen))..Len(aiText) : StartsWith(aiText, k, FenceClose)}
        openings == {i \in 1..Len(aiText) :
                        StartsWith(aiText, i, FenceOpen) /\ Closings(i) # {}}
        i == MinOf(openings)
        k == MinOf(Closings(i))
    IN  IF openings = {} THEN None
        ELSE Some(<<SubSeq(aiText, i, k + Len(FenceClose) - 1),
                    SubSeq(aiText, i + Len(FenceOpen), k - 1)>>)

\* aiText.match(/({[\s\S]*})/): from the first opening brace that has a
\* closing brace after it to the last closing brace.
BraceMatch(aiText) ==
    LET closings == {k \in 1..Len(aiText) : aiText[k] = 125}
        openings == {i \in 1..Len(aiText) : aiText[i] = 123 /\ \E k \in closings : k > i}
        whole == SubSeq(aiText, MinOf(openings), MaxOf(closings))
    IN  IF openings = {} THEN None ELSE Some(<<whole, whole>>)

jsonMatchBraceFirst(aiText) ==
    IF BraceMatch(aiText) # None THEN BraceMatch(aiText) ELSE FencedMatch(aiText)

\* Line 68: the first pattern, or else the second.
jsonMatch(aiText) ==
    IF FencedMatch(aiText) # None THEN FencedMatch(aiText) ELSE BraceMatch(aiText)

\* Line 69: jsonMatch ? jsonMatch[1] || jsonMatch[0] : aiText
jsonString(aiText) ==
    LET Pick(match) ==
            IF match = None THEN aiText
            ELSE IF match[1][2] # <<>> THEN match[1][2] ELSE match[1][1]
    IN  Apply(Pick, jsonMatch(aiText))

\* new Date(dobString) for a date in the form YYYY-MM-DD.
RECURSIVE DecimalValue(_, _)
DecimalValue(digits, n) ==
    IF n = 0 THEN 0 ELSE 10 * DecimalValue(digits, n - 1) + (digits[n] - 48)

\* The days of month m of year y.
DaysInMonth(y, m) ==
    IF m = 2 THEN (IF (y % 4 = 0 /\ y % 100 # 0) \/ y % 400 = 0 THEN 29 ELSE 28)
    ELSE IF m \in {4, 6, 9, 11} THEN 30 ELSE 31

\* The day before.
PreviousDay(date) ==
    IF date.d > 1 THEN Date(date.y, date.m, date.d - 1)
    ELSE IF date.m > 1 THEN Date(date.y, date.m - 1, DaysInMonth(date.y, date.m - 1))
    ELSE Date(date.y - 1, 12, 31)

\* new Date(dobString) for a date in the form YYYY-MM-DD, as getFullYear,
\* getMonth and getDate read it: the string is taken as midnight UTC and
\* the getters give the local calendar fields, zone being the hours the
\* process's time zone is ahead of UTC.
NewDate(dobString, zone) ==
    LET utc == Date(DecimalValue(SubSeq(dobString, 1, 4), 4),
                    DecimalValue(SubSeq(dobString, 6, 7), 2),
                    DecimalValue(SubSeq(dobString, 9, 10), 2))
    IN  IF zone < 0 THEN PreviousDay(utc) ELSE utc

\* calculateAgeFromDob (lines 97-109)
calculateAgeFromDob(dobString, today, zone) ==
    calculateAge(NewDate(dobString, zone), today)

\* Lines 72-78: the assignments to the parsed value; reading a property of
\* null or undefined throws a TypeError.
ParsedData(parsedData, providedDob, today, zone) ==
    LET given == Get(parsedData, Chars("personalInfo"))
        withInfo == Set(parsedData, Chars("personalInfo"),
                        IF Truthy(given) THEN given ELSE Object(<<>>))
        personalInfo == Get(withInfo, Chars("personalInfo"))
        dated == Set(Set(personalInfo, Chars("dateOfBirth"), String(providedDob)),
                     Chars("age"), Number(calculateAgeFromDob(providedDob, today, zone)))
    IN  IF parsedData.type = "null" \/ personalInfo.type = "undefined"
        THEN Raised(Chars("error"))
        ELSE Returned(Set(withInfo, Chars("personalInfo"), dated))

\* Lines 80-85: the record of a response that could not be parsed.
ParseFailure(aiText) ==
    Object(<<<<Chars("rawResponse"), String(aiText)>>,
             <<Chars("error"), String(Chars("AI response could not be parsed as JSON"))>>,
             <<Chars("extractedData"), String(aiText)>>>>)

\* Lines 66-86: what processWithAI returns for the response text aiText.
AfterResponse(aiText, providedDob, today, zone) ==
    LET Settle(parsed) ==
            LET Assigned(outcome) == IF outcome.ok THEN outcome.text ELSE ParseFailure(aiText)
            IN  IF ~parsed.ok THEN ParseFailure(aiText)
                ELSE Apply(Assigned, ParsedData(parsed.value, providedDob, today, zone))
    IN  Apply(Settle, JsonParse(jsonString(aiText)))

\* generateMockAIResponse (lines 114-141): the local extractor.
mockResponse(text, providedDob, today, zone) ==
    LET One(match) == IF match # None THEN Strings(<<match[1]>>) ELSE Array(<<>>)
    IN  Object(<<
          <<Chars("personalInfo"),
            Object(<<<<Chars("fullName"), String(Chars("Extracted from document"))>>,
                     <<Chars("dateOfBirth"), String(providedDob)>>,
                     <<Chars("age"), Number(calculateAgeFromDob(providedDob, today, zone))>>>>)>>,
          <<Chars("contactInfo"),
            Object(<<<<Chars("emails"), Apply(One, MatchFirst(EmailPattern, text))>>,
                     <<Chars("phoneNumbers"), Apply(One, MatchFirst(PhonePattern, text))>>>>)>>,
          <<Chars("addresses"), Strings(extractAddressesFromText(text))>>,
          <<Chars("identificationNumbers"), Apply(One, MatchFirst(IdPattern, text))>>,
          <<Chars("keyDates"), Strings(extractDatesFromText(text))>>,
          <<Chars("summary"), String(Chars("This is a mock AI extraction demonstrating structured data extraction capabilities. Provide a real Gemini API key for actual AI processing."))>>,
          <<Chars("note"), String(Chars("Mock data - real AI processing requires GEMINI_API_KEY"))>>>>)


\* The texts given to processWithAI.
RawTexts ==
    <<\* Hello World
      <<72, 101, 108, 108, 111, 32, 87, 111, 114, 108, 100>>,
      \* a@b.co c@d.io 555-123-4567 555-765-4321 123-45-6789 987-65-4321
      <<97, 64, 98, 46, 99, 111, 32, 99, 64, 100, 46, 105, 111, 32, 53, 53, 53, 45, 49,
        50, 51, 45, 52, 53, 54, 55, 32, 53, 53, 53, 45, 55, 54, 53, 45, 52, 51, 50, 49,
        32, 49, 50, 51, 45, 52, 53, 45, 54, 55, 56, 57, 32, 57, 56, 55, 45, 54, 53, 45,
        52, 51, 50, 49>>,
      \* 1/2/2020 3/4/2021 Jan 5, 2020 2020-01-02 5/6/22 7/8/23
      <<49, 47, 50, 47, 50, 48, 50, 48, 32, 51, 47, 52, 47, 50, 48, 50, 49, 32, 74, 97,
        110, 32, 53, 44, 32, 50, 48, 50, 48, 32, 50, 48, 50, 48, 45, 48, 49, 45, 48, 50,
        32, 53, 47, 54, 47, 50, 50, 32, 55, 47, 56, 47, 50, 51>>,
      \* PO Box 1 PO Box 2 PO Box 3 9 Elm Road
      <<80, 79, 32, 66, 111, 120, 32, 49, 32, 80, 79, 32, 66, 111, 120, 32, 50, 32, 80,
        79, 32, 66, 111, 120, 32, 51, 32, 57, 32, 69, 108, 109, 32, 82, 111, 97, 100>>,
      \* 12 Main St, Springfield, IL 62704
      <<49, 50, 32, 77, 97, 105, 110, 32, 83, 116, 44, 32, 83, 112, 114, 105, 110, 103,
        102, 105, 101, 108, 100, 44, 32, 73, 76, 32, 54, 50, 55, 48, 52>>>>

\* The texts the AI service may answer with.
ResponseTexts ==
    <<\* ```json\n{"personalInfo":{"fullName":"Ada"},"summary":"s"}\n```
      <<96, 96, 96, 106, 115, 111, 110, 10, 123, 34, 112, 101, 114, 115, 111, 110, 97,
        108, 73, 110, 102, 111, 34, 58, 123, 34, 102, 117, 108, 108, 78, 97, 109, 101,
        34, 58, 34, 65, 100, 97, 34, 125, 44, 34, 115, 117, 109, 109, 97, 114, 121, 34,
        58, 34, 115, 34, 125, 10, 96, 96, 96>>,
      \* Here: {"summary":"s"} done
      <<72, 101, 114, 101, 58, 32, 123, 34, 115, 117, 109, 109, 97, 114, 121, 34, 58, 34,
        115, 34, 125, 32, 100, 111, 110, 101>>,
      \* {"a":1} ```json\n{"b":2}\n``` {"c":3}
      <<123, 34, 97, 34, 58, 49, 125, 32, 96, 96, 96, 106, 115, 111, 110, 10, 123, 34,
        98, 34, 58, 50, 125, 10, 96, 96, 96, 32, 123, 34, 99, 34, 58, 51, 125>>,
      \* Sorry, no data.
      <<83, 111, 114, 114, 121, 44, 32, 110, 111, 32, 100, 97, 116, 97, 46>>,
      \* {"a":1} and {"b":2}
      <<123, 34, 97, 34, 58, 49, 125, 32, 97, 110, 100, 32, 123, 34, 98, 34, 58, 50, 125>>,
      \* {"personalInfo":"Ada"}
      <<123, 34, 112, 101, 114, 115, 111, 110, 97, 108, 73, 110, 102, 111, 34, 58, 34,
        65, 100, 97, 34, 125>>,
      \* null
      <<110, 117, 108, 108>>,
      \* 42
      <<52, 50>>,
      \* [1]
      <<91, 49, 93>>,
      \* {"c":3} ```json\n\n```
      <<123, 34, 99, 34, 58, 51, 125, 32, 96, 96, 96, 106, 115, 111, 110, 10, 10, 96, 96,
        96>>,
      \* {"personalInfo":null}
      <<123, 34, 112, 101, 114, 115, 111, 110, 97, 108, 73, 110, 102, 111, 34, 58, 110,
        117, 108, 108, 125>>,
      \* {"personalInfo":{"dateOfBirth":"1999-01-01","age":3}}
      <<123, 34, 112, 101, 114, 115, 111, 110, 97, 108, 73, 110, 102, 111, 34, 58, 123,
        34, 100, 97, 116, 101, 79, 102, 66, 105, 114, 116, 104, 34, 58, 34, 49, 57, 57,
        57, 45, 48, 49, 45, 48, 49, 34, 44, 34, 97, 103, 101, 34, 58, 51, 125, 125>>,
      \* 
      <<>>>>

\* userData.dob, as the caller gives it.
DobStrings ==
    <<\* 2000-06-15
      <<50, 48, 48, 48, 45, 48, 54, 45, 49, 53>>,
      \* 1990-12-31
      <<49, 57, 57, 48, 45, 49, 50, 45, 51, 49>>>>


\* What the AI service does with one request.
AiUnconfigured == [configured |-> FALSE, answer |-> "none"]
AiServiceRaises == [configured |-> TRUE, answer |-> "raises"]
AiAnswersJson == [configured |-> TRUE, answer |-> "json"]
AiAnswersProse == [configured |-> TRUE, answer |-> "prose"]

\* generateMockAIResponse: the fields the job lifecycle depends on.
generateMockAIResponse(text, providedDob, today) ==
    [source |-> "mock",
     dateOfBirth |-> Some(providedDob),
     age |-> Some(calculateAge(providedDob, today)),
     error |-> None,
     note |-> Some("Mock data - real AI processing requires GEMINI_API_KEY")]

\* processWithAI: every path returns a record; none raises.
processWithAI(text, providedDob, a, today) ==
    IF ~a.configured THEN generateMockAIResponse(text, providedDob, today)
    ELSE IF a.answer = "raises" THEN generateMockAIResponse(text, providedDob, today)
    ELSE IF a.answer = "json"
    THEN [source |-> "ai",
          dateOfBirth |-> Some(providedDob),
          age |-> Some(calculateAge(providedDob, today)),
          error |-> None,
          note |-> None]
    ELSE [source |-> "unparsed",
          dateOfBirth |-> None,
          age |-> None,
          error |-> Some("AI response could not be parsed as JSON"),
          note |-> None]

(***************************************************************************)
(* supabaseService.js: the Job Store table document_processing_jobs, as a  *)
(* function from the job_id of each row to the row.                        *)
(***************************************************************************)

\* storeDocumentMetadata: the inserted row (the other columns default to null).
NewRow(jobId, fileUrl, file, userData, processingMethod, now) ==
    [job_id |-> jobId,
     file_url |-> fileUrl,
     file_name |-> file.originalname,
     mime_type |-> file.mimetype,
     first_name |-> userData.firstName,
     last_name |-> userData.lastName,
     date_of_birth |-> userData.dob,
     processing_method |-> processingMethod,
     status |-> "processing",
     created_at |-> now,
     raw_text |-> None,
     ai_extracted_data |-> None,
     full_name |-> None,
     age |-> None,
     error_message |-> None,
     completed_at |-> None]

SupabaseInsert(table, row) ==
    [k \in DOMAIN table \cup {row.job_id} |-> IF k = row.job_id THEN row ELSE table[k]]

RowMatchesAny(row, jobId) == TRUE

\* .eq('job_id', jobId)
RowMatches(row, jobId) == row.job_id = jobId

Patched(row, patch) ==
    [f \in DOMAIN row |-> IF f \in DOMAIN patch THEN patch[f] ELSE row[f]]

\* .update(patch).eq('job_id', jobId): no row matching is not an error.
SupabaseUpdate(table, jobId, patch) ==
    [k \in DOMAIN table |->
        IF RowMatches(table[k], jobId) THEN Patched(table[k], patch) ELSE table[k]]

\* updateProcessingResults: the columns it sets.
CompletedPatchWithoutText(results, now) ==
    [status |-> "completed",
     raw_text |-> None,
     ai_extracted_data |-> results.aiExtractedData,
     full_name |-> Some(results.fullName),
     age |-> Some(results.age),
     completed_at |-> Some(now)]

CompletedPatchWithMessage(results, now) ==
    [status |-> "completed",
     raw_text |-> Some(results.rawText),
     ai_extracted_data |-> results.aiExtractedData,
     full_name |-> Some(results.fullName),
     age |-> Some(results.age),
     error_message |-> Some(<<"">>),
     completed_at |-> Some(now)]

CompletedPatchWithCreatedAt(results, now) ==
    [status |-> "completed",
     raw_text |-> Some(results.rawText),
     ai_extracted_data |-> results.aiExtractedData,
     full_name |-> Some(results.fullName),
     age |-> Some(results.age),
     created_at |-> now]

CompletedPatch(results, now) ==
    [status |-> "completed",
     raw_text |-> Some(results.rawText),
     ai_extracted_data |-> results.aiExtractedData,
     full_name |-> Some(results.fullName),
     age |-> Some(results.age),
     completed_at |-> Some(now)]

FailedPatchWithText(message) ==
    [status |-> "failed", error_message |-> Some(message), raw_text |-> Some(message)]

\* The update of the catch block of processDocumentAsync.
FailedPatch(message) ==
    [status |-> "failed", error_message |-> Some(message)]

\* getProcessingResult: null (None) when there is no row.
getProcessingResult(table, jobId) ==
    IF jobId \notin DOMAIN table THEN None
    ELSE LET data == table[jobId]
         IN  Some([jobId |-> data.job_id,
                   status |-> data.status,
                   fullName |-> IF data.full_name # None THEN data.full_name[1]
                                ELSE <<data.first_name, " ", data.last_name>>,
                   age |-> data.age,
                   rawText |-> data.raw_text,
                   aiExtractedData |-> data.ai_extracted_data,
                   processingMethod |-> data.processing_method,
                   fileName |-> data.file_name])

\* getAllProcessingJobs: the summaries, newest first.
getAllProcessingJobs(table) ==
    LET n == Cardinality(DOMAIN table)
        order == CHOOSE s \in [1..n -> DOMAIN table] :
                     /\ \A i, k \in 1..n : i # k => s[i] # s[k]
                     /\ \A i, k \in 1..n :
                            i < k => table[s[i]].created_at >= table[s[k]].created_at
    IN  [i \in 1..n |->
            LET job == table[order[i]]
            IN  [jobId |-> job.job_id,
                 fileName |-> job.file_name,
                 fullName |-> IF job.full_name # None THEN job.full_name[1]
                              ELSE <<job.first_name, " ", job.last_name>>,
                 status |-> job.status,
                 processingMethod |-> job.processing_method,
                 createdAt |-> job.created_at]]

(***************************************************************************)
(* documentProcessor.js: the texts of processDocumentAsync.                *)
(***************************************************************************)

\* "PDF text extraction completed but no readable text was found."
PdfNoReadableText ==
    <<80, 68, 70, 32, 116, 101, 120, 116, 32, 101, 120, 116, 114, 97, 99,
      116, 105, 111, 110, 32, 99, 111, 109, 112, 108, 101, 116, 101, 100,
      32, 98, 117, 116, 32, 110, 111, 32, 114, 101, 97, 100, 97, 98, 108,
      101, 32, 116, 101, 120, 116, 32, 119, 97, 115, 32, 102, 111, 117, 110,
      100, 46 >>

\* "Image text extraction completed but no readable text was found."
ImageNoReadableText ==
    <<73, 109, 97, 103, 101, 32, 116, 101, 120, 116, 32, 101, 120, 116, 114,
      97, 99, 116, 105, 111, 110, 32, 99, 111, 109, 112, 108, 101, 116, 101,
      100, 32, 98, 117, 116, 32, 110, 111, 32, 114, 101, 97, 100, 97, 98,
      108, 101, 32, 116, 101, 120, 116, 32, 119, 97, 115, 32, 102, 111, 117,
      110, 100, 46 >>

\* "PDF processing encountered an issue: "
PdfIssuePrefix ==
    <<80, 68, 70, 32, 112, 114, 111, 99, 101, 115, 115, 105, 110, 103, 32,
      101, 110, 99, 111, 117, 110, 116, 101, 114, 101, 100, 32, 97, 110, 32,
      105, 115, 115, 117, 101, 58, 32 >>

\* "Image processing encountered an issue: "
ImageIssuePrefix ==
    <<73, 109, 97, 103, 101, 32, 112, 114, 111, 99, 101, 115, 115, 105, 110,
      103, 32, 101, 110, 99, 111, 117, 110, 116, 101, 114, 101, 100, 32, 97,
      110, 32, 105, 115, 115, 117, 101, 58, 32 >>

\* "No text could be extracted from the document."
NoTextExtracted ==
    <<78, 111, 32, 116, 101, 120, 116, 32, 99, 111, 117, 108, 100, 32, 98,
      101, 32, 101, 120, 116, 114, 97, 99, 116, 101, 100, 32, 102, 114, 111,
      109, 32, 116, 104, 101, 32, 100, 111, 99, 117, 109, 101, 110, 116, 46 >>

AfterExtractionUnchecked(outcome, noReadableText, issuePrefix) ==
    IF outcome.ok THEN outcome.text ELSE issuePrefix \o outcome.text

\* Lines 67-78 and 82-91: what rawText is once the extractor has settled.
AfterExtraction(outcome, noReadableText, issuePrefix) ==
    IF outcome.ok
    THEN IF outcome.text = <<>> \/ Len(Apply(trim, outcome.text)) = 0
         THEN noReadableText ELSE outcome.text
    ELSE issuePrefix \o outcome.text

StartsWithNoImage(mimetype) == FALSE

\* file.mimetype.startsWith('image/'), over the MIME types submitted here.
StartsWithImage(mimetype) == mimetype \in {"image/png", "image/jpeg"}

PrepareResultsWithoutData(rawText, aiExtractedData, userData, today) ==
    [rawText |-> IF rawText # <<>> THEN rawText ELSE NoTextExtracted,
     aiExtractedData |-> None,
     fullName |-> <<userData.firstName, " ", userData.lastName>>,
     age |-> calculateAge(userData.dob, today)]

\* Lines 118-126.
PrepareResults(rawText, aiExtractedData, userData, today) ==
    [rawText |-> IF rawText # <<>> THEN rawText ELSE NoTextExtracted,
     aiExtractedData |-> aiExtractedData,
     fullName |-> <<userData.firstName, " ", userData.lastName>>,
     age |-> calculateAge(userData.dob, today)]

(***************************************************************************)
(* The job lifecycle: processDocument, processDocumentAsync and the Job    *)
(* Store.  One action is the code that runs between two awaits: the        *)
(* settling of the awaited call together with the continuation up to the   *)
(* next await.                                                             *)
(***************************************************************************)

\* The extractors' results for the documents drawn here, tabulated.
PdfResults ==
    [modulesLoaded \in BOOLEAN |-> [c \in PdfCases |-> extractTextFromPDF(c, modulesLoaded)]]

ImageResults == [engine \in ImageCases |-> extractTextFromImage(engine)]

\* The texts the strategies produce on the documents drawn here, and what
\* the quality gate and the cleanup make of each, tabulated.
StrategyTexts ==
    UNION {{tryStandardExtraction(c), OcrFullText(c.ocr, Len(c.ocr)),
            extractTextWithAlternativeOCR(c), extractTextFallback(c)} : c \in PdfCases}

Gate ==
    [text \in StrategyTexts |->
        [good |-> isTextQualityGood(text),
         accepted |-> Accepts(text),
         blank |-> trim(text) = <<>>,
         clean |-> cleanExtractedText(text)]]

AlternativeTexts == [c \in PdfCases |-> extractTextWithAlternativeOCR(c)]

FallbackTexts == [c \in PdfCases |-> extractTextFallback(c)]

\* Everything the extractors compute from the documents drawn here.
Extracted ==
    [pdf |-> PdfResults,
     image |-> ImageResults,
     gate |-> Gate,
     alternative |-> AlternativeTexts,
     fallback |-> FallbackTexts]

VARIABLES
    jobs,              \* the table: job_id -> row
    blobs,             \* the objects of the storage bucket 'my-files'
    calls,             \* the calls of processDocument, by the uuid drawn at line 23
    tasks,             \* the dispatched processDocumentAsync runs, by jobId
    log,               \* the logger.error entries
    writes,            \* history: the updates that touched each inserted row
    nextId,            \* the next uuid
    ocrModulesLoaded,  \* whether pdf2pic and tesseract.js could be required
    responses,         \* history: the answers of the results routes, in order
              \* the jobs whose task is not promised to be scheduled
                       \* or to have its calls return
    chain,             \* the running extractTextFromPDF calls, by jobId, when the
                       \* strategies are followed step by step
    profile,           \* which inputs this run draws from: several jobs at once,
                       \* every kind of document, every reading of the clock,
                       \* the requests of the results routes, or the PDF
                       \* strategies step by step
    ai,                \* one call of processWithAI, when the function is
                       \* followed on its own
    extracted,         \* what the extractors compute from each document: they
                       \* are functions of the buffer alone, so this is fixed
                       \* from the start
    temp               \* the files under os.tmpdir(): path -> whether it is
                       \* there, and history: the tasks that wrote, read or
                       \* removed it

vars == <<jobs, blobs, calls, tasks, log, writes, nextId, ocrModulesLoaded, responses, profile,
          ai, extracted, temp, chain>>

MaxJobs == 2
WideJobs == 1

JobLimit == IF profile \in {"concurrent", "temp", "live"} THEN MaxJobs ELSE WideJobs

Mimes == {"application/pdf", "image/png", "text/plain"}

UserData == [firstName |-> "Ada", lastName |-> "Lovelace", dob |-> Date(2000, 6, 15)]

File(mimetype) == [originalname |-> "scan", mimetype |-> mimetype]

Params(mimetype, processingMethod) ==
    [file |-> File(mimetype), userData |-> UserData, processingMethod |-> processingMethod]

NarrowSubmissions ==
    {Params("application/pdf", "standard"), Params("image/png", "ai"),
     Params("text/plain", "standard")}

Submissions ==
    IF profile = "documents"
    THEN {Params(m, pm) : m \in Mimes, pm \in {"standard", "ai"}}
    ELSE IF profile = "chain"
    THEN {Params("application/pdf", "standard"), Params("image/png", "ai")}
    ELSE IF profile = "temp" \/ (profile = "live" /\ nextId > 1)
    THEN {Params("application/pdf", "standard")}
    ELSE NarrowSubmissions

PdfInputs ==
    IF profile \in {"documents", "chain"} THEN PdfCases
    ELSE IF profile \in {"temp", "live"} THEN {ScannedPdf, NoRasterPdf}
    ELSE {ScannedPdf}

ImageInputs == IF profile = "documents" THEN ImageCases ELSE {Raised(EngineMessage)}

AiInputs ==
    IF profile = "documents"
    THEN {AiUnconfigured, AiServiceRaises, AiAnswersJson, AiAnswersProse}
    ELSE {AiUnconfigured}

\* new Date(): the day for the ages, the instant for the timestamps.
Todays ==
    IF profile = "clock" THEN {Date(2026, 6, 14), Date(2026, 6, 15)}
    ELSE {Date(2026, 6, 15)}

Instants == IF profile = "clock" THEN {1, 2} ELSE {1}

\* The hours the time zone of the process is ahead of UTC.
Zones == IF profile = "age" THEN {0 - 5, 0, 2} ELSE {0 - 5, 0}

\* Date.now() at lines 150 and 151: the millisecond.
Stamps == IF profile = "temp" THEN {1, 2} ELSE {1}

\* The calls of processWithAI(text, providedDob): the arguments, whether
\* GEMINI_API_KEY is set, and the day.
AiCalls ==
    {[text |-> RawTexts[t], providedDob |-> DobStrings[d], configured |-> configured,
      today |-> today, zone |-> zone, at |-> "called", serviceCalls |-> 0,
      aiText |-> None, jsonString |-> None, result |-> None] :
        t \in DOMAIN RawTexts, d \in DOMAIN DobStrings, configured \in BOOLEAN,
        today \in Todays, zone \in Zones}

\* The date of birth as the caller writes it: YYYY-MM-DD.
IsoDate(date) ==
    LET Two(n) == IF n < 10 THEN <<48>> \o Decimal(n) ELSE Decimal(n)
    IN  Decimal(date.y) \o <<45>> \o Two(date.m) \o <<45>> \o Two(date.d)

\* Dates of birth and days on which the age is computed.
Births ==
    {Date(2000, 6, 15), Date(1990, 12, 31), Date(2000, 1, 1), Date(2000, 3, 1),
     Date(2004, 2, 29)}

AgeTodays ==
    {Date(2024, 6, 14), Date(2024, 6, 15), Date(2024, 12, 31), Date(2025, 1, 1),
     Date(2024, 2, 29), Date(2024, 3, 1), Date(2023, 2, 28)}

\* The calls of calculateAge(dobString) and calculateAgeFromDob(dobString).
AgeCalls ==
    {[at |-> "age", born |-> born, dobString |-> IsoDate(born), today |-> today,
      zone |-> zone, age |-> None, ageFromDob |-> None] :
        born \in Births, today \in AgeTodays, zone \in Zones}

\* What model.generateContent and response.text() may do.
AiAnswers == {Raised(EngineMessage)} \cup {Returned(ResponseTexts[r]) : r \in DOMAIN ResponseTexts}

InitWith(profiles) ==
    /\ extracted = Extracted
    /\ jobs = <<>>
    /\ blobs = {}
    /\ calls = <<>>
    /\ tasks = <<>>
    /\ log = {}
    /\ writes = <<>>
    /\ nextId = 1
    /\ profile \in profiles
    /\ ocrModulesLoaded \in IF profile \in {"documents", "chain"} THEN BOOLEAN ELSE {TRUE}
    /\ chain = <<>>
    /\ temp = <<>>
    /\ responses = <<>>
    /\ ai \in IF profile = "ai" THEN AiCalls
             ELSE IF profile = "age" THEN AgeCalls
             ELSE {[at |-> "unused"]}

Init == InitWith({"concurrent", "documents", "clock", "routes"})

Logged(message, jobId) == [message |-> message, jobId |-> jobId]

\* The rows an update with this filter changes, added to the history.
Recorded(history, table, jobId, by, patch) ==
    [k \in DOMAIN history |->
        IF k \in DOMAIN table /\ RowMatches(table[k], jobId)
        THEN Append(history[k], [by |-> by, status |-> patch.status])
        ELSE history[k]]

\* Lines 50-53: the error is logged and rethrown to the caller.
Swallowed(call, jobId, failed, message) ==
    [call EXCEPT !.pc = "returned", !.failed = failed, !.result = Some(<<"jobId", jobId>>)]

Rethrown(call, jobId, failed, message) ==
    [call EXCEPT !.pc = "raised", !.failed = failed, !.result = Some(<<"error", message>>)]

\* Lines 45-49: the task is started, not awaited, and jobId is returned.
AwaitingTask(call, jobId) == [call EXCEPT !.pc = "processDocumentAsync"]

ReturnedJobId(call, jobId) ==
    [call EXCEPT !.pc = "returned", !.result = Some(<<"jobId", jobId>>)]

\* processDocument, lines 21-29: draws the jobId and awaits storeFile.
ProcessDocument(params) ==
    /\ nextId <= JobLimit
    /\ calls' = Extend(calls, nextId, [pc |-> "storeFile", params |-> params,
                                       fileUrl |-> None, failed |-> "none",
                                       result |-> None])
    /\ nextId' = nextId + 1
    /\ UNCHANGED <<jobs, blobs, tasks, log, writes, ocrModulesLoaded, responses, profile, ai, extracted, temp, chain>>

\* storeFile settles: the object is in the bucket and the insert is awaited,
\* or the upload error is logged and rethrown (lines 50-53).
StoreFileDone(c, uploaded) ==
    /\ c \in DOMAIN calls
    /\ calls[c].pc = "storeFile"
    /\ IF uploaded
       THEN /\ blobs' = blobs \cup {<<"my-files", c>>}
            /\ calls' = [calls EXCEPT ![c].pc = "storeDocumentMetadata",
                                      ![c].fileUrl = Some(<<"my-files", c>>)]
            /\ log' = log
       ELSE /\ blobs' = blobs
            /\ calls' = [calls EXCEPT
                            ![c] = Rethrown(calls[c], c, "storeFile",
                                            "Failed to upload file to Supabase")]
            /\ log' = log \cup {Logged("Error in processDocument", c)}
    /\ UNCHANGED <<jobs, tasks, writes, nextId, ocrModulesLoaded, responses, profile, ai, extracted, temp, chain>>

\* processDocumentAsync, lines 59-94: the synchronous start of the task, up
\* to its first await.
StartTask(jobId, file, userData, processingMethod) ==
    LET supported == file.mimetype = "application/pdf" \/ StartsWithImage(file.mimetype)
    IN  [pc |-> IF file.mimetype = "application/pdf" THEN "extractTextFromPDF"
                ELSE IF StartsWithImage(file.mimetype) THEN "extractTextFromImage"
                ELSE "updateFailed",
         file |-> file,
         userData |-> userData,
         processingMethod |-> processingMethod,
         rawText |-> <<>>,
         patch |-> IF supported THEN None
                   ELSE Some(FailedPatch(<<"Unsupported file type: ", file.mimetype>>)),
         drew |-> None,
         writeFailed |-> FALSE,
         failedWrite |-> "none"]

\* storeDocumentMetadata settles: the row is inserted, the task is dispatched
\* and runs to its first await, and jobId is returned (lines 32-49); or the
\* insert error is logged and rethrown (lines 50-53).
StoreDocumentMetadataDone(c, inserted, now) ==
    /\ c \in DOMAIN calls
    /\ calls[c].pc = "storeDocumentMetadata"
    /\ IF inserted
       THEN LET p == calls[c].params
                task == StartTask(c, p.file, p.userData, p.processingMethod)
            IN  /\ jobs' = SupabaseInsert(jobs, NewRow(c, calls[c].fileUrl[1], p.file,
                                                     p.userData, p.processingMethod, now))
                /\ writes' = Extend(writes, c, <<>>)
                /\ tasks' = Extend(tasks, c, task)
                /\ calls' = [calls EXCEPT ![c] = ReturnedJobId(calls[c], c)]
                /\ log' = IF task.pc = "updateFailed"
                          THEN log \cup {Logged("Error processing document for job", c)}
                          ELSE log
       ELSE /\ calls' = [calls EXCEPT
                            ![c] = Rethrown(calls[c], c, "storeDocumentMetadata",
                                            "Failed to store document metadata")]
            /\ log' = log \cup {Logged("Error in processDocument", c)}
            /\ UNCHANGED <<jobs, writes, tasks>>
    /\ UNCHANGED <<blobs, nextId, ocrModulesLoaded, responses, profile, ai, extracted, temp, chain>>

\* Lines 96-129 for a job without AI: the results are prepared and
\* updateProcessingResults is awaited.
AwaitUpdate(task, aiExtractedData, today, now) ==
    [task EXCEPT
        !.pc = "updateProcessingResults",
        !.patch = Some(CompletedPatch(
                      PrepareResults(task.rawText, aiExtractedData, task.userData, today),
                      now))]

AfterTextAlwaysAI(task, rawText, drew, today, now) ==
    [task EXCEPT !.rawText = rawText, !.drew = Some(drew), !.pc = "processWithAI"]

\* Lines 96-108: after the text, either processWithAI is awaited or the
\* results are written.
AfterText(task, rawText, drew, today, now) ==
    LET Continue(t) ==
            IF t.processingMethod = "ai"
            THEN [t EXCEPT !.pc = "processWithAI"]
            ELSE AwaitUpdate(t, None, today, now)
    IN  Apply(Continue, [task EXCEPT !.rawText = rawText, !.drew = Some(drew)])

\* extractTextFromPDF settles (lines 67-78).
ExtractTextFromPDFDone(j, c, today, now) ==
    /\ j \in DOMAIN tasks
    /\ tasks[j].pc = "extractTextFromPDF"
    /\ LET outcome == Returned(extracted.pdf[ocrModulesLoaded][c])
           rawText == AfterExtraction(outcome, PdfNoReadableText, PdfIssuePrefix)
       IN  /\ tasks' = [tasks EXCEPT ![j] = AfterText(tasks[j], rawText, c, today, now)]
           /\ log' = IF outcome.ok THEN log
                     ELSE log \cup {Logged("PDF text extraction failed", j)}
    /\ UNCHANGED <<jobs, blobs, calls, writes, nextId, ocrModulesLoaded, responses, profile, ai, extracted, temp, chain>>

\* extractTextFromImage settles (lines 82-91).
ExtractTextFromImageDone(j, engine, today, now) ==
    /\ j \in DOMAIN tasks
    /\ tasks[j].pc = "extractTextFromImage"
    /\ LET outcome == extracted.image[engine]
           rawText == AfterExtraction(outcome, ImageNoReadableText, ImageIssuePrefix)
       IN  /\ tasks' = [tasks EXCEPT ![j] = AfterText(tasks[j], rawText, engine, today, now)]
           /\ log' = IF outcome.ok THEN log
                     ELSE log \cup {Logged("Image text extraction failed", j)}
    /\ UNCHANGED <<jobs, blobs, calls, writes, nextId, ocrModulesLoaded, responses, profile, ai, extracted, temp, chain>>

\* processWithAI settles (lines 105-129).
ProcessWithAIDone(j, a, today, now) ==
    /\ j \in DOMAIN tasks
    /\ tasks[j].pc = "processWithAI"
    /\ LET outcome == [ok |-> TRUE,
                       data |-> processWithAI(tasks[j].rawText, tasks[j].userData.dob, a, today)]
           aiExtractedData == IF outcome.ok THEN Some(outcome.data) ELSE None
       IN  /\ tasks' = [tasks EXCEPT ![j] = AwaitUpdate(tasks[j], aiExtractedData, today, now)]
           /\ log' = IF outcome.ok THEN log ELSE log \cup {Logged("AI processing failed", j)}
    /\ UNCHANGED <<jobs, blobs, calls, writes, nextId, ocrModulesLoaded, responses, profile, ai, extracted, temp, chain>>

NotFinished(task) ==
    [task EXCEPT !.pc = "updateFailed",
                 !.patch = Some([status |-> "failed", error_message |-> Some(<<"", "">>)])]

\* The function has returned: its locals are gone.
Finished(task) ==
    [task EXCEPT !.pc = "done", !.rawText = <<>>, !.patch = None, !.drew = None]

\* updateProcessingResults settles: the row is completed (lines 129-131), or
\* the error is thrown into the catch block, which logs it and awaits the
\* update to failed (lines 132-142).
UpdateProcessingResultsDone(j, written) ==
    /\ j \in DOMAIN tasks
    /\ tasks[j].pc = "updateProcessingResults"
    /\ IF written
       THEN /\ jobs' = SupabaseUpdate(jobs, j, tasks[j].patch[1])
            /\ writes' = Recorded(writes, jobs, j, j, tasks[j].patch[1])
            /\ tasks' = [tasks EXCEPT ![j] = Finished(tasks[j])]
            /\ log' = log
       ELSE /\ tasks' = [tasks EXCEPT
                            ![j].pc = "updateFailed",
                            ![j].writeFailed = TRUE,
                            ![j].patch = Some(FailedPatch(
                                <<"Failed to update processing results: ", "write error">>))]
            /\ log' = log \cup {Logged("Error processing document for job", j)}
            /\ UNCHANGED <<jobs, writes>>
    /\ UNCHANGED <<blobs, calls, nextId, ocrModulesLoaded, responses, profile, ai, extracted, temp, chain>>

AfterFailedUpdateSilent(entries, outcome, jobId) == entries

\* Lines 144-146 and 45-47: what is logged once the update to failed settled.
AfterFailedUpdate(entries, outcome, jobId) ==
    IF outcome = "written" THEN entries
    ELSE entries \cup {Logged(IF outcome = "error"
                              THEN "Failed to update error status:"
                              ELSE "Async document processing failed", jobId)}

\* The update to failed settles (lines 136-147): written; or answered with
\* an error, which line 145 logs; or rejected, which rejects the task's
\* promise, which the catch of line 45 logs.
UpdateFailedDone(j, outcome) ==
    /\ j \in DOMAIN tasks
    /\ tasks[j].pc = "updateFailed"
    /\ IF outcome = "written"
       THEN /\ jobs' = SupabaseUpdate(jobs, j, tasks[j].patch[1])
            /\ writes' = Recorded(writes, jobs, j, j, tasks[j].patch[1])
       ELSE UNCHANGED <<jobs, writes>>
    /\ log' = AfterFailedUpdate(log, outcome, j)
    /\ tasks' = [tasks EXCEPT ![j] = [Finished(tasks[j]) EXCEPT !.failedWrite = outcome]]
    /\ UNCHANGED <<blobs, calls, nextId, ocrModulesLoaded, responses, profile, ai, extracted, temp, chain>>

\* The delete of a row of the table. supabaseService.js neither defines nor
\* exports a deleteProcessingJob, so this is the delete as the Job Store
\* itself performs it for any of its clients: the row is removed.
deleteProcessingJob(j) ==
    /\ j \in DOMAIN jobs
    /\ jobs' = [k \in DOMAIN jobs \ {j} |-> jobs[k]]
    /\ UNCHANGED <<blobs, calls, tasks, log, writes, nextId, ocrModulesLoaded, responses, profile, ai, extracted, temp, chain>>

Ids == 1..(nextId - 1)

(***************************************************************************)
(* backend/routes/results.js: the routes mounted at /api/results.  Each    *)
(* request runs its handler to the answer in one step: the handlers await  *)
(* one call of supabaseService and change nothing themselves.              *)
(***************************************************************************)

\* The requests one run makes.
MaxRequests == 2

\* The job ids a request may name: those drawn so far and one never drawn.
RequestIds == 1..nextId

\* record.name: None for a property the object does not have (undefined).
Property(record, name) == IF name \in DOMAIN record THEN Some(record[name]) ELSE None

\* !value, for the value of a property read: undefined, null and '' are falsy.
Not(value) == value = None \/ value[1] = None

\* module.exports of supabaseService.js.
SupabaseServiceExports ==
    {"storeFile", "storeDocumentMetadata", "updateProcessingResults",
     "getProcessingResult", "getAllProcessingJobs"}

\* const { name } = require('../services/supabaseService'): undefined for a
\* name the module does not export.
Imported(name) == name \in SupabaseServiceExports

Response(route, j, status, body) ==
    [route |-> route, jobId |-> j, existed |-> j \in DOMAIN jobs,
     status |-> status, body |-> body]

\* errorHandler: an error that is neither a multer error nor a unique
\* violation is answered with 500.
errorHandler(route, j) == Response(route, j, 500, [error |-> "Internal server error"])

\* router.get('/:jobId/document'): 404 unless the result has a fileUrl.
DocumentAnswer(j) ==
    LET result == getProcessingResult(jobs, j)
    IN  IF result = None \/ Not(Property(result[1], "fileUrl"))
        THEN Response("document", j, 404, [error |-> "Document not found"])
        ELSE Response("document", j, 200,
                      [fileUrl |-> Property(result[1], "fileUrl"),
                       fileName |-> Property(result[1], "fileName"),
                       mimeType |-> Property(result[1], "mimeType")])

DocumentRequested(j) ==
    /\ profile = "routes"
    /\ Len(responses) < MaxRequests
    /\ responses' = Append(responses, DocumentAnswer(j))
    /\ UNCHANGED <<jobs, blobs, calls, tasks, log, writes, nextId, ocrModulesLoaded, profile, ai, extracted, temp, chain>>

\* router.delete('/:jobId'): calling the undefined import throws a TypeError
\* inside the try, and the catch hands it to errorHandler.
DeleteRequested(j) ==
    /\ profile = "routes"
    /\ Len(responses) < MaxRequests
    /\ IF ~Imported("deleteProcessingJob")
       THEN /\ responses' = Append(responses, errorHandler("delete", j))
            /\ UNCHANGED jobs
       ELSE /\ responses' = Append(responses,
                    IF j \in DOMAIN jobs
                    THEN Response("delete", j, 200, [message |-> "Job deleted successfully"])
                    ELSE Response("delete", j, 404, [error |-> "Job not found"]))
            /\ jobs' = [k \in DOMAIN jobs \ {j} |-> jobs[k]]
    /\ UNCHANGED <<blobs, calls, tasks, log, writes, nextId, ocrModulesLoaded, profile, ai, extracted, temp, chain>>

Next ==
    \/ \E params \in Submissions : ProcessDocument(params)
    \/ \E c \in Ids, uploaded \in BOOLEAN : StoreFileDone(c, uploaded)
    \/ \E c \in Ids, inserted \in BOOLEAN, now \in Instants :
          StoreDocumentMetadataDone(c, inserted, now)
    \/ \E j \in Ids, c \in PdfInputs, today \in Todays, now \in Instants :
          ExtractTextFromPDFDone(j, c, today, now)
    \/ \E j \in Ids, engine \in ImageInputs, today \in Todays, now \in Instants :
          ExtractTextFromImageDone(j, engine, today, now)
    \/ \E j \in Ids, a \in AiInputs, today \in Todays, now \in Instants :
          ProcessWithAIDone(j, a, today, now)
    \/ \E j \in Ids, written \in BOOLEAN : UpdateProcessingResultsDone(j, written)
    \/ \E j \in Ids, outcome \in {"written", "error", "rejected"} : UpdateFailedDone(j, outcome)
    \/ \E j \in Ids : deleteProcessingJob(j)
    \/ \E j \in RequestIds : DocumentRequested(j)
    \/ \E j \in RequestIds : DeleteRequested(j)

Spec == Init /\ [][Next]_vars

(***************************************************************************)
(* Properties of the job lifecycle.                                        *)
(***************************************************************************)

TerminalStatuses == {"completed", "failed"}

SupportedMimes == {"application/pdf", "image/png", "image/jpeg"}

HasText(rawText) == rawText # None /\ Len(rawText[1]) > 0

\* C1: once a read of a job shows completed or failed, every later read of
\* that job, as long as its record exists, shows the same status, whatever
\* step of any submission, task or delete comes in between.
C1_StatusIsFinal ==
    [][\A j \in Ids :
          LET before == getProcessingResult(jobs, j)
              after == getProcessingResult(jobs', j)
          IN  (before # None /\ after # None /\ before[1].status \in TerminalStatuses)
                  => after[1].status = before[1].status]_vars

\* Two jobs have finished, one completed and one failed, each after steps of
\* the other.
C1_Witness ==
    \E j, k \in DOMAIN jobs :
        /\ jobs[j].status = "completed" /\ jobs[k].status = "failed"
        /\ tasks[j].pc = "done" /\ tasks[k].pc = "done"

\* C2: a job that reads as completed has a rawText of at least one
\* character.
C2_CompletedHasRawText ==
    \A j \in DOMAIN jobs :
        jobs[j].status = "completed" => HasText(getProcessingResult(jobs, j)[1].rawText)

\* A job completed although the image extractor raised.
C2_Witness ==
    \E j \in DOMAIN jobs :
        /\ jobs[j].status = "completed"
        /\ jobs[j].raw_text = Some(ImageIssuePrefix \o FailedToExtractPrefix \o EngineMessage)

\* C3 as stated: a job that reads as completed or failed has a rawText of
\* at least one character.
C3_TerminalHasRawText ==
    \A j \in DOMAIN jobs :
        jobs[j].status \in TerminalStatuses
            => HasText(getProcessingResult(jobs, j)[1].rawText)

\* C3: a completed job has a rawText of at least one character; a failed
\* job has no rawText at all, only its error message.
C3_RawTextByStatus ==
    \A j \in DOMAIN jobs :
        /\ jobs[j].status = "completed" => HasText(jobs[j].raw_text)
        /\ jobs[j].status = "failed" =>
              jobs[j].raw_text = None /\ jobs[j].error_message # None
        /\ jobs[j].status = "processing" => jobs[j].raw_text = None

\* One job failed on its MIME type, another on its result write.
C3_Witness ==
    \E j, k \in DOMAIN jobs :
        /\ jobs[j].status = "failed" /\ jobs[k].status = "failed"
        /\ jobs[j].error_message = Some(<<"Unsupported file type: ", "text/plain">>)
        /\ jobs[k].error_message =
              Some(<<"Failed to update processing results: ", "write error">>)

\* C4: the step in which processDocument returns leaves the file in the
\* bucket and the job's record at processing, and returns the jobId; what
\* it returned never changes afterwards; a job whose record is completed or
\* failed has had its jobId returned.
C4_ReturnsBeforeTheTaskEnds ==
    /\ [][\A c \in DOMAIN calls :
             /\ (calls[c].pc # "returned" /\ calls'[c].pc = "returned")
                   => /\ calls'[c].result = Some(<<"jobId", c>>)
                      /\ calls'[c].fileUrl # None /\ calls'[c].fileUrl[1] \in blobs'
                      /\ c \in DOMAIN jobs' /\ jobs'[c].status = "processing"
             /\ calls[c].pc = "returned" => calls'[c] = calls[c]]_vars
    /\ [](\A j \in DOMAIN jobs :
             jobs[j].status \in TerminalStatuses
                 => calls[j].pc = "returned" /\ calls[j].result = Some(<<"jobId", j>>))

\* The jobId was returned and the job then failed.
C4_Witness ==
    \E c \in DOMAIN calls :
        /\ calls[c].result = Some(<<"jobId", c>>)
        /\ c \in DOMAIN jobs /\ jobs[c].status = "failed"
        /\ tasks[c].writeFailed

\* C5: a failed job has an unsupported MIME type or a failed result write;
\* a finished task of a supported type whose result write did not fail left
\* its record, if it still exists, completed.
C5_FailedOnlyWhenImpossible ==
    \A j \in DOMAIN tasks :
        /\ (j \in DOMAIN jobs /\ jobs[j].status = "failed")
              => (tasks[j].file.mimetype \notin SupportedMimes \/ tasks[j].writeFailed)
        /\ (j \in DOMAIN jobs /\ tasks[j].pc = "done"
               /\ tasks[j].file.mimetype \in SupportedMimes /\ ~tasks[j].writeFailed)
              => jobs[j].status = "completed"

\* The PDF extractor found no readable text and the job completed with the
\* placeholder.
C5_Witness ==
    \E j \in DOMAIN jobs :
        /\ jobs[j].status = "completed"
        /\ jobs[j].raw_text \in {Some(PdfNoReadableText), Some(PdfNotSuccessful)}
        /\ ~tasks[j].writeFailed

\* C6 as stated: once a job's task has finished, its record has been
\* updated exactly once since the insert.
C6_UpdatedExactlyOnce ==
    \A j \in DOMAIN tasks :
        (tasks[j].pc = "done" /\ j \in DOMAIN jobs) => Len(writes[j]) = 1

\* C6: a job's record is updated at most once after the insert, by the step
\* that ends the job's own task and by nothing else; not at all before that
\* step; and once the task has ended, exactly once unless the update to
\* failed was itself refused.
C6_UpdatedAtMostOnceByOwnTask ==
    /\ [](\A j \in DOMAIN writes :
             /\ Len(writes[j]) <= 1
             /\ \A i \in 1..Len(writes[j]) : writes[j][i].by = j
             /\ tasks[j].pc # "done" => Len(writes[j]) = 0
             /\ (tasks[j].pc = "done" /\ j \in DOMAIN jobs) =>
                   (Len(writes[j]) = 1 <=> tasks[j].failedWrite \notin {"error", "rejected"}))
    /\ [][\A j \in DOMAIN jobs :
             (j \in DOMAIN jobs' /\ jobs'[j] # jobs[j])
                 => /\ tasks[j].pc \in {"updateProcessingResults", "updateFailed"}
                    /\ tasks'[j].pc = "done"
                    /\ writes'[j] = Append(writes[j], [by |-> j, status |-> jobs'[j].status])
                    /\ \A k \in DOMAIN jobs \ {j} : k \in DOMAIN jobs' /\ jobs'[k] = jobs[k]]_vars

\* One job's record was completed by its task while the record of another
\* job, whose task ended with both of its updates refused, is untouched.
C6_Witness ==
    \E j, k \in DOMAIN jobs :
        /\ tasks[j].pc = "done" /\ Len(writes[j]) = 1 /\ jobs[j].status = "completed"
        /\ tasks[k].pc = "done" /\ Len(writes[k]) = 0 /\ tasks[k].writeFailed

\* C7: when the update to failed is refused, by an error answer or by a
\* rejection, an error entry for the job is in the log, the call of
\* processDocument has returned the jobId, and the record, while it exists,
\* reads processing.
C7_StuckInProcessing ==
    \A j \in DOMAIN tasks :
        tasks[j].failedWrite \in {"error", "rejected"}
            => /\ \E e \in log :
                     /\ e.jobId = j
                     /\ e.message = IF tasks[j].failedWrite = "error"
                                    THEN "Failed to update error status:"
                                    ELSE "Async document processing failed"
               /\ calls[j].pc = "returned" /\ calls[j].result = Some(<<"jobId", j>>)
               /\ getProcessingResult(jobs, j) # None
                     => getProcessingResult(jobs, j)[1].status = "processing"

\* The update to failed was rejected for one job and answered with an error
\* for another, and both records are still there.
C7_Witness ==
    \E j, k \in DOMAIN jobs :
        /\ tasks[j].failedWrite = "rejected" /\ tasks[k].failedWrite = "error"
        /\ tasks[j].pc = "done" /\ tasks[k].pc = "done"

Listed(table) == {getAllProcessingJobs(table)[i].jobId : i \in DOMAIN getAllProcessingJobs(table)}

\* C8: a call of processDocument whose upload or insert failed has raised
\* the error, has no task, and no record of its jobId can be read or listed;
\* nor can one before the insert has succeeded.
C8_FailedSubmissionLeavesNothing ==
    \A c \in DOMAIN calls :
        /\ calls[c].failed # "none"
              => calls[c].pc = "raised" /\ calls[c].result # None
                    /\ calls[c].result[1][1] = "error"
        /\ calls[c].pc \in {"storeFile", "storeDocumentMetadata", "raised"}
              => /\ c \notin DOMAIN tasks
                 /\ getProcessingResult(jobs, c) = None
                 /\ c \notin Listed(jobs)
        /\ calls[c].failed = "storeFile" => <<"my-files", c>> \notin blobs

\* One call was rejected at the upload and another at the insert.
C8_Witness ==
    \E c, d \in DOMAIN calls :
        /\ calls[c].failed = "storeFile" /\ calls[d].failed = "storeDocumentMetadata"
        /\ calls[c].pc = "raised" /\ calls[d].pc = "raised"

(***************************************************************************)
(* pdfExtractor.js step by step: extractTextFromPDF and extractTextWithOCR *)
(* between their awaits.  chain[j] is the call made by the task of job j:  *)
(* the document c it works on, where it waits, its local variables, the    *)
(* strategies it has started (in order) and those still running, and the   *)
(* number of calls made to the rasterizer and to the OCR engine.           *)
(***************************************************************************)

OcrNeverAccepted(text) == FALSE

\* Line 42.
OcrAccepted(text) == extracted.gate[text].accepted

DirectNeverAccepted(text) == FALSE

\* Line 31.
DirectAccepted(text) == extracted.gate[text].good

\* The call returns text to processDocumentAsync, which goes on (lines 67-129).
\* Line 150: path.join(tempDir, `temp_${Date.now()}.pdf`).
TempPdfPath(stamp) == <<"temp_.pdf", stamp, 0>>

\* Line 151: path.join(tempDir, `pdf_images_${Date.now()}`).
OutputDir(stamp) == <<"pdf_images_", stamp, 0>>

\* The image of page k that the rasterizer saves in the directory: options
\* saveFilename, savePath and format (lines 166-169 and 190-193).
PagePath(dir, format, k) == <<format, dir[2], k>>

\* The directory and what was saved in it.
Within(fs, dir) == {p \in DOMAIN fs : p[2] = dir[2] /\ p[1] # TempPdfPath(0)[1]}

Present(fs, path) == path \in DOMAIN fs /\ fs[path].present

\* The task j creates or overwrites the paths.
WrittenBy(fs, paths, j) ==
    [p \in DOMAIN fs \cup paths |->
        IF p \in paths
        THEN [present |-> TRUE, by |-> (IF p \in DOMAIN fs THEN fs[p].by ELSE {}) \cup {j}]
        ELSE fs[p]]

\* The task j reads those of the paths that are there.
ReadBy(fs, paths, j) ==
    [p \in DOMAIN fs |->
        IF p \in paths /\ fs[p].present THEN [fs[p] EXCEPT !.by = @ \cup {j}] ELSE fs[p]]

\* The task j removes those of the paths that are there.
RemovedBy(fs, paths, j) ==
    [p \in DOMAIN fs |->
        IF p \in paths /\ fs[p].present
        THEN [present |-> FALSE, by |-> fs[p].by \cup {j}]
        ELSE fs[p]]

\* Lines 148-159: the directory is made unless it is there, and the buffer
\* is written to the temporary file.
CreateTemporaryFiles(fs, tempPdfPath, outputDir, j) ==
    WrittenBy(WrittenBy(fs, IF Present(fs, outputDir) THEN {} ELSE {outputDir}, j),
              {tempPdfPath}, j)

\* The rasterizer reads the temporary file and saves one image per page.
Rasterized(fs, ch, format, j) ==
    WrittenBy(ReadBy(fs, {ch.tempPdfPath}, j),
              {PagePath(ch.outputDir, format, k) : k \in 1..Len(ch.c.ocr)}, j)

\* Lines 224-249: the OCR engine reads the image of the page, which is then
\* removed.
PageDone(fs, path, j) == RemovedBy(ReadBy(fs, {path}, j), {path}, j)

\* Lines 252-258: unlinkSync throws when the file is gone, and the directory
\* is then left alone.
CleanUp(fs, ch, j) ==
    IF Present(fs, ch.tempPdfPath)
    THEN RemovedBy(fs, {ch.tempPdfPath} \cup Within(fs, ch.outputDir), j)
    ELSE fs

Return(j, ch, text, today, now) ==
    /\ chain' = Extend(chain, j, [ch EXCEPT !.at = "returned", !.active = {},
                                            !.result = Some(text)])
    /\ tasks' = [tasks EXCEPT ![j] =
                    AfterText(tasks[j],
                              AfterExtraction(Returned(text), PdfNoReadableText, PdfIssuePrefix),
                              ch.c, today, now)]

\* The call goes on waiting: processDocumentAsync does not move.
Wait(j, ch) ==
    /\ chain' = Extend(chain, j, ch)
    /\ tasks' = tasks

RejectingUnsettled(ch, why) == ch

\* Lines 46-52: extractTextWithOCR rejected; the alternative is started.
Rejecting(ch, why) ==
    [ch EXCEPT !.at = "extractTextWithAlternativeOCR",
               !.ocrOutcome = Some(Rejected(why)),
               !.started = Append(ch.started, "alternative"),
               !.active = {"alternative"}]

\* Lines 63-65: the fallback is started.
Falling(ch) ==
    [ch EXCEPT !.at = "extractTextFallback",
               !.started = Append(ch.started, "fallback"),
               !.active = {"fallback"}]

\* Lines 36-40 and 134-146: extractTextWithOCR is called and runs to its
\* first await, or throws for want of the modules.
EnteringOCR(ch, modulesLoaded) ==
    LET called == [ch EXCEPT !.started = Append(ch.started, "ocr"), !.active = {"ocr"}]
    IN  IF ~modulesLoaded THEN Rejecting(called, "OCR modules not available")
        ELSE [called EXCEPT !.at = "checkDiskSpace"]

\* Lines 211-224: the pages are there; the OCR engine is called on the first.
Recognizing(ch, format) ==
    LET pages == [k \in 1..Len(ch.c.ocr) |-> PagePath(ch.outputDir, format, k)]
    IN  IF Len(pages) = 0 THEN Rejecting(ch, "No pages could be extracted")
        ELSE [ch EXCEPT !.at = "recognize", !.page = 1, !.pages = pages,
                        !.ocrEngineCalls = ch.ocrEngineCalls + 1]

\* pdfParse settles in tryStandardExtraction (lines 28-40).
TryStandardExtractionDone(j, c, today, now) ==
    /\ j \in DOMAIN tasks
    /\ tasks[j].pc = "extractTextFromPDF"
    /\ j \notin DOMAIN chain
    /\ LET text == tryStandardExtraction(c)
           ch == [c |-> c, at |-> "tryStandardExtraction", direct |-> text,
                  page |-> 0, fullText |-> <<>>, ocrOutcome |-> None,
                  started |-> <<"direct">>, active |-> {},
                  rasterizerCalls |-> 0, ocrEngineCalls |-> 0, result |-> None,
                  tempPdfPath |-> None, outputDir |-> None, pages |-> <<>>]
       IN  IF DirectAccepted(text)
           THEN Return(j, ch, extracted.gate[text].clean, today, now)
           ELSE Wait(j, EnteringOCR(ch, ocrModulesLoaded))
    /\ UNCHANGED <<jobs, blobs, calls, log, writes, nextId, ocrModulesLoaded, responses, profile, ai, extracted, temp>>

\* checkDiskSpace settles (lines 143-180): the temporary files are written
\* and the rasterizer is called.
CheckDiskSpaceDone(j, stamp, later) ==
    /\ j \in DOMAIN chain
    /\ chain[j].at = "checkDiskSpace"
    /\ stamp <= later
    /\ Wait(j, IF chain[j].c.disk
               THEN [chain[j] EXCEPT !.at = "convert",
                                     !.tempPdfPath = TempPdfPath(stamp),
                                     !.outputDir = OutputDir(later),
                                     !.rasterizerCalls = chain[j].rasterizerCalls + 1]
               ELSE Rejecting(chain[j], "Insufficient disk space"))
    /\ temp' = IF chain[j].c.disk
               THEN CreateTemporaryFiles(temp, TempPdfPath(stamp), OutputDir(later), j)
               ELSE temp
    /\ UNCHANGED <<jobs, blobs, calls, log, writes, nextId, ocrModulesLoaded, responses, profile, ai, extracted>>

\* convert.bulk settles (lines 180-204): on failure the rasterizer is called
\* again with the alternative options.
ConvertDone(j) ==
    /\ j \in DOMAIN chain
    /\ chain[j].at = "convert"
    /\ Wait(j, IF chain[j].c.raster = "ok"
               THEN Recognizing(chain[j], "png")
               ELSE [chain[j] EXCEPT !.at = "convertAlt",
                                     !.rasterizerCalls = chain[j].rasterizerCalls + 1])
    /\ temp' = IF chain[j].c.raster = "ok"
               THEN Rasterized(temp, chain[j], "png", j)
               ELSE ReadBy(temp, {chain[j].tempPdfPath}, j)
    /\ UNCHANGED <<jobs, blobs, calls, log, writes, nextId, ocrModulesLoaded, responses, profile, ai, extracted>>

\* convertAlt.bulk settles (lines 204-224).
ConvertAltDone(j) ==
    /\ j \in DOMAIN chain
    /\ chain[j].at = "convertAlt"
    /\ Wait(j, IF chain[j].c.raster = "alt"
               THEN Recognizing(chain[j], "jpeg")
               ELSE Rejecting(chain[j], "Both conversion methods failed"))
    /\ temp' = IF chain[j].c.raster = "alt"
               THEN Rasterized(temp, chain[j], "jpeg", j)
               ELSE ReadBy(temp, {chain[j].tempPdfPath}, j)
    /\ UNCHANGED <<jobs, blobs, calls, log, writes, nextId, ocrModulesLoaded, responses, profile, ai, extracted>>

\* Tesseract.recognize settles on the current page (lines 224-265 and
\* 40-45): the next page, or the end of the loop and the test of fullText.
RecognizeDone(j, today, now) ==
    /\ j \in DOMAIN chain
    /\ chain[j].at = "recognize"
    /\ LET ch == chain[j]
           k == ch.page
           fullText == ch.fullText \o OcrPageOutput(ch.c.ocr[k], k)
           read == [ch EXCEPT !.fullText = fullText]
       IN  IF k < Len(ch.c.ocr)
           THEN Wait(j, [read EXCEPT !.page = k + 1,
                                     !.ocrEngineCalls = ch.ocrEngineCalls + 1])
           ELSE IF extracted.gate[fullText].blank
           THEN Wait(j, Rejecting(read, "OCR failed to extract any text"))
           ELSE IF OcrAccepted(fullText)
           THEN Return(j, [read EXCEPT !.ocrOutcome = Some(Returned(fullText))],
                       extracted.gate[fullText].clean, today, now)
           ELSE Wait(j, Falling([read EXCEPT !.ocrOutcome = Some(Returned(fullText))]))
    /\ temp' = LET ch == chain[j]
                   fs == PageDone(temp, ch.pages[ch.page], j)
               IN  IF ch.page < Len(ch.c.ocr) THEN fs ELSE CleanUp(fs, ch, j)
    /\ UNCHANGED <<jobs, blobs, calls, log, writes, nextId, ocrModulesLoaded, responses, profile, ai, extracted>>

\* extractTextWithAlternativeOCR settles (lines 52-65).
AlternativeOCRDone(j, today, now) ==
    /\ j \in DOMAIN chain
    /\ chain[j].at = "extractTextWithAlternativeOCR"
    /\ LET text == extracted.alternative[chain[j].c]
       IN  IF extracted.gate[text].accepted
           THEN Return(j, chain[j], extracted.gate[text].clean, today, now)
           ELSE Wait(j, Falling(chain[j]))
    /\ UNCHANGED <<jobs, blobs, calls, log, writes, nextId, ocrModulesLoaded, responses, profile, ai, extracted, temp>>

\* extractTextFallback settles (lines 65-74).
ExtractTextFallbackDone(j, today, now) ==
    /\ j \in DOMAIN chain
    /\ chain[j].at = "extractTextFallback"
    /\ LET text == extracted.fallback[chain[j].c]
       IN  Return(j, chain[j],
                  IF extracted.gate[text].accepted THEN extracted.gate[text].clean ELSE PdfNotSuccessful,
                  today, now)
    /\ UNCHANGED <<jobs, blobs, calls, log, writes, nextId, ocrModulesLoaded, responses, profile, ai, extracted, temp>>

InitChain == InitWith({"chain"})

NextChain ==
    \/ \E params \in Submissions : ProcessDocument(params)
    \/ \E c \in Ids, uploaded \in BOOLEAN : StoreFileDone(c, uploaded)
    \/ \E c \in Ids, inserted \in BOOLEAN, now \in Instants :
          StoreDocumentMetadataDone(c, inserted, now)
    \/ \E j \in Ids, c \in PdfInputs, today \in Todays, now \in Instants :
          TryStandardExtractionDone(j, c, today, now)
    \/ \E j \in Ids, stamp \in Stamps, later \in Stamps : CheckDiskSpaceDone(j, stamp, later)
    \/ \E j \in Ids : ConvertDone(j)
    \/ \E j \in Ids : ConvertAltDone(j)
    \/ \E j \in Ids, today \in Todays, now \in Instants : RecognizeDone(j, today, now)
    \/ \E j \in Ids, today \in Todays, now \in Instants : AlternativeOCRDone(j, today, now)
    \/ \E j \in Ids, today \in Todays, now \in Instants : ExtractTextFallbackDone(j, today, now)
    \/ \E j \in Ids, engine \in ImageInputs, today \in Todays, now \in Instants :
          ExtractTextFromImageDone(j, engine, today, now)
    \/ \E j \in Ids, a \in AiInputs, today \in Todays, now \in Instants :
          ProcessWithAIDone(j, a, today, now)
    \/ \E j \in Ids, written \in BOOLEAN : UpdateProcessingResultsDone(j, written)
    \/ \E j \in Ids, outcome \in {"written", "error", "rejected"} : UpdateFailedDone(j, outcome)
    \/ \E j \in Ids : deleteProcessingJob(j)

SpecChain == InitChain /\ [][NextChain]_vars

\* Two extractions at once, on any readings of the clock.
InitTemp == InitWith({"chain", "temp"})

SpecTemp == InitTemp /\ [][NextChain]_vars

(***************************************************************************)
(* Properties of the strategy chain.                                       *)
(***************************************************************************)

StrategyRank(strategy) ==
    IF strategy = "direct" THEN 1 ELSE IF strategy = "ocr" THEN 2
    ELSE IF strategy = "alternative" THEN 3 ELSE 4

Started(ch, strategy) == \E i \in 1..Len(ch.started) : ch.started[i] = strategy

\* C9: the strategies of one extraction start in the order Direct-Text, OCR
\* (with its alternative), fallback, each at most once; at most one is
\* running, and it is the last one started; OCR starts only when the
\* Direct-Text output failed the gate, the alternative only when OCR was
\* rejected, the fallback only when the OCR path ended without accepted
\* text; and when the Direct-Text output passes the gate nothing else is
\* started and neither the rasterizer nor the OCR engine is ever called.
C9_StrategiesInOrder ==
    \A j \in DOMAIN chain :
        LET ch == chain[j]
            n == Len(ch.started)
        IN  /\ ch.started[1] = "direct"
            /\ \A i \in 1..(n - 1) :
                  StrategyRank(ch.started[i]) < StrategyRank(ch.started[i + 1])
            /\ Cardinality(ch.active) <= 1
            /\ ch.active \subseteq {ch.started[n]}
            /\ ch.at = "returned" => ch.active = {}
            /\ Started(ch, "ocr") => ~extracted.gate[ch.direct].good
            /\ Started(ch, "alternative")
                  => Started(ch, "ocr") /\ ch.ocrOutcome # None /\ ~ch.ocrOutcome[1].ok
            /\ Started(ch, "fallback")
                  => /\ Started(ch, "ocr") /\ ch.ocrOutcome # None
                     /\ IF ch.ocrOutcome[1].ok THEN ~extracted.gate[ch.ocrOutcome[1].text].accepted
                        ELSE ~extracted.gate[extracted.alternative[ch.c]].accepted
            /\ ch.rasterizerCalls + ch.ocrEngineCalls > 0 => Started(ch, "ocr")
            /\ extracted.gate[ch.direct].good
                  => /\ ch.started = <<"direct">> /\ ch.at = "returned"
                     /\ ch.rasterizerCalls = 0 /\ ch.ocrEngineCalls = 0

\* An extraction went through Direct-Text, OCR and the fallback, one after
\* the other, and returned.
C9_Witness ==
    \E j \in DOMAIN chain :
        /\ chain[j].started = <<"direct", "ocr", "fallback">>
        /\ chain[j].at = "returned"
        /\ chain[j].rasterizerCalls > 0 /\ chain[j].ocrEngineCalls > 0

\* C10 as stated: when the Direct-Text output fails the gate, OCR is
\* started and the completed job's rawText is the concatenated per-page
\* output of the OCR engine.
C10_OcrOutputIsRawText ==
    \A j \in DOMAIN chain :
        (chain[j].at = "returned" /\ ~extracted.gate[chain[j].direct].good
            /\ j \in DOMAIN jobs /\ jobs[j].status = "completed")
            => /\ Started(chain[j], "ocr")
               /\ jobs[j].raw_text = Some(chain[j].fullText)

\* C10: when the Direct-Text output fails the gate, OCR is started; if it
\* returns a concatenated per-page output that passes the gate, the
\* extraction returns that output cleaned up, otherwise the cleaned output
\* of the alternative or of the fallback, or the placeholder; and the
\* completed job's rawText is what the extraction returned, or the 'no
\* readable text' placeholder when that is blank.
C10_AcceptedOcrOutputCleaned ==
    \A j \in DOMAIN chain :
        LET ch == chain[j]
        IN  (ch.at = "returned" /\ ~extracted.gate[ch.direct].good)
                => /\ Len(ch.started) >= 2 /\ ch.started[2] = "ocr"
                   /\ ch.ocrOutcome # None
                   /\ IF ch.ocrOutcome[1].ok /\ extracted.gate[ch.ocrOutcome[1].text].accepted
                      THEN /\ ch.ocrOutcome[1].text = OcrFullText(ch.c.ocr, Len(ch.c.ocr))
                           /\ ch.result = Some(extracted.gate[ch.ocrOutcome[1].text].clean)
                      ELSE ch.result[1] \in
                              {extracted.gate[extracted.alternative[ch.c]].clean,
                               extracted.gate[extracted.fallback[ch.c]].clean,
                               PdfNotSuccessful}
                   /\ (j \in DOMAIN jobs /\ jobs[j].status = "completed")
                         => jobs[j].raw_text =
                               Some(IF Len(trim(ch.result[1])) = 0 THEN PdfNoReadableText
                                    ELSE ch.result[1])

\* A scanned PDF was read by OCR and the job completed with the cleaned
\* text, which is not the concatenation itself.
C10_Witness ==
    \E j \in DOMAIN chain :
        /\ chain[j].c = ScannedPdf /\ chain[j].at = "returned"
        /\ chain[j].ocrEngineCalls = Len(chain[j].c.ocr)
        /\ j \in DOMAIN jobs /\ jobs[j].status = "completed"
        /\ jobs[j].raw_text = Some(extracted.gate[chain[j].fullText].clean)
        /\ jobs[j].raw_text # Some(chain[j].fullText)

(***************************************************************************)
(* The extraction stage of processDocumentAsync (lines 64-94): the         *)
(* extractor called for the MIME type, and what the task makes of its      *)
(* outcome.                                                                *)
(***************************************************************************)

IsPdf(task) == task.file.mimetype = "application/pdf"

\* The outcome of the extractor that the task of job j called.
ExtractorOutcome(j) ==
    IF IsPdf(tasks[j])
    THEN Returned(extracted.pdf[ocrModulesLoaded][tasks[j].drew[1]])
    ELSE extracted.image[tasks[j].drew[1]]

IsBlank(text) == \A i \in 1..Len(text) : IsSpace(text[i])

\* C11 as stated, of extractTextFromPDF and extractTextFromImage: the
\* extractor called for a PDF or an image never raises and never returns
\* an empty string.
C11_ExtractorsAlwaysReturnText ==
    \A j \in DOMAIN tasks :
        tasks[j].drew # None =>
            ExtractorOutcome(j).ok /\ ExtractorOutcome(j).text # <<>>

\* C11, amended: extractTextFromPDF never raises; extractTextFromImage
\* raises when the OCR engine does, and either may return an empty or blank
\* string. The task is not failed by any of this (it goes on to structuring
\* or to the results write): the text it carries on with is the extractor's
\* text when that is not blank, the "no readable text" placeholder when it
\* is, and the "encountered an issue" message followed by the error's
\* message when the extractor raised; it is never empty or blank.
C11_ExtractionStageYieldsText ==
    \A j \in DOMAIN tasks :
        tasks[j].drew # None =>
            LET outcome == ExtractorOutcome(j)
                rawText == tasks[j].rawText
            IN  /\ IsPdf(tasks[j]) => outcome.ok
                /\ tasks[j].pc \in {"processWithAI", "updateProcessingResults"}
                       \/ tasks[j].writeFailed
                /\ ~IsBlank(rawText)
                /\ outcome.ok /\ ~IsBlank(outcome.text) => rawText = outcome.text
                /\ outcome.ok /\ IsBlank(outcome.text) =>
                       rawText = IF IsPdf(tasks[j]) THEN PdfNoReadableText
                                 ELSE ImageNoReadableText
                /\ ~outcome.ok =>
                       rawText = ImageIssuePrefix \o FailedToExtractPrefix
                                     \o tasks[j].drew[1].text

\* The OCR engine raised on a job's image, and the task is about to write
\* its results.
C11_Witness ==
    /\ \E j \in DOMAIN tasks :
           /\ tasks[j].drew = Some(Raised(EngineMessage))
           /\ ~IsPdf(tasks[j])
           /\ tasks[j].pc = "updateProcessingResults"

\* C12: once the chain has come to its last-resort steps, the text they
\* produce is the extraction result whenever it is not empty, whatever the
\* quality gate would say of it: the text of the alternative step (the
\* pattern scan of the raw buffer) when that is not empty, otherwise the
\* text of the fallback extraction when that is not empty.
C12_SalvageTextIsReturned ==
    \A j \in DOMAIN chain :
        LET ch == chain[j]
            alt == extracted.alternative[ch.c]
            fallback == extracted.fallback[ch.c]
            Is(text) == ch.result \in {Some(text), Some(extracted.gate[text].clean)}
        IN  ch.at = "returned" =>
                /\ Started(ch, "alternative") /\ alt # <<>> => Is(alt)
                /\ Started(ch, "fallback") /\ fallback # <<>>
                       /\ ~(Started(ch, "alternative") /\ alt # <<>>) => Is(fallback)

\* The extractTextWithOCR call of this extraction has ended after it had
\* created its temporary files.
OcrPathEnded(ch) == ch.ocrOutcome # None /\ ch.tempPdfPath # None

\* C13: whenever the OCR path has ended, by resolving or by rejecting, after
\* it created its temporary PDF file and its temporary image directory,
\* neither of the two exists any more, nor any page image in the directory.
C13_TemporaryFilesRemoved ==
    \A j \in DOMAIN chain :
        OcrPathEnded(chain[j]) =>
            /\ ~Present(temp, chain[j].tempPdfPath)
            /\ \A p \in Within(temp, chain[j].outputDir) : ~temp[p].present

\* C14: no temporary file or directory has been written, read or removed by
\* the tasks of two different jobs.
C14_TemporaryFilesPrivate ==
    \A p \in DOMAIN temp : Cardinality(temp[p].by) <= 1

\* The page count of the longest document.
MostPages == MaxOf({Len(c.ocr) : c \in PdfCases})

\* C15: there is a fixed number N of pages, which the longest document
\* exceeds, such that no extraction rasterizes more than N pages nor calls
\* the OCR engine more than N times.
C15_PagesCapped ==
    \E N \in 1..(MostPages - 1) :
        \A j \in DOMAIN chain :
            Len(chain[j].pages) <= N /\ chain[j].ocrEngineCalls <= N

\* The pages of the loop that the OCR engine has settled.
PagesDone(ch) == IF ch.at = "recognize" THEN ch.page - 1 ELSE Len(ch.pages)

\* C16: fullText is, in page order, the text of each page the OCR engine
\* has read followed by a blank line and, at the position of each page k on
\* which it failed, the marker "[OCR failed for page k]"; the failure of a
\* page does not end the loop: the engine is called on the pages one by
\* one and, when the loop is over, has been called once for every page.
C16_FailedPageMarked ==
    \A j \in DOMAIN chain :
        LET ch == chain[j]
            ocr == ch.c.ocr
            piece == [k \in 1..PagesDone(ch) |->
                         IF ocr[k].ok THEN ocr[k].text \o <<10, 10>> ELSE OcrFailedMarker(k)]
        IN  /\ ch.fullText = Join(piece, <<>>)
            /\ ch.at = "recognize" => ch.ocrEngineCalls = ch.page
            /\ ch.pages # <<>> /\ ch.at # "recognize" => ch.ocrEngineCalls = Len(ocr)

\* The engine failed on a page that is not the last, the loop went on to the
\* end and the output holds the marker between the texts of its neighbours.
C16_Witness ==
    \E j \in DOMAIN chain :
        LET ch == chain[j]
        IN  /\ ch.ocrOutcome # None
            /\ ch.pages # <<>>
            /\ \E k \in 2..(Len(ch.c.ocr) - 1) :
                   /\ ~ch.c.ocr[k].ok /\ ch.c.ocr[k - 1].ok /\ ch.c.ocr[k + 1].ok
                   /\ ch.fullText = ch.c.ocr[k - 1].text \o <<10, 10>> \o OcrFailedMarker(k)
                                       \o ch.c.ocr[k + 1].text \o <<10, 10>>
            /\ ch.ocrEngineCalls = Len(ch.c.ocr)

\* The four conditions of the Quality Assessor on a text, the first on its
\* length once trimmed.
FourConditions(text) ==
    LET IsLongWord(w) == Len(w) > 2
        words == SelectSeq(Words(text), IsLongWord)
    IN  /\ Len(trim(text)) > QualityMinLength
        /\ 5 * Len(SelectSeq(text, IsReadable)) > 3 * Len(text)
        /\ Len(words) > 0 /\ 2 * SumLen(words) > 5 * Len(words)
        /\ \A i \in 1..Len(text) : ~IsBinaryChar(text[i]) /\ ~IsEncodedChar(text[i])

\* C17: the gate accepts the Direct-Text output of an extraction if and
\* only if its trimmed length exceeds 50, its readable ratio exceeds 0.6,
\* the average length of its words longer than 2 exceeds 2.5 and it holds
\* no control or high-byte character; in particular it accepts no text
\* whose trimmed length is at most 50.
C17_GateFourConditions ==
    \A j \in DOMAIN chain :
        LET text == chain[j].direct
            good == extracted.gate[text].good
        IN  /\ good <=> FourConditions(text)
            /\ Len(trim(text)) <= QualityMinLength => ~good

(***************************************************************************)
(* processWithAI followed on its own (aiProcessor.js lines 13-92).         *)
(***************************************************************************)

\* Lines 13-60: without the key the local extractor answers at once;
\* otherwise the prompt is sent and the call waits for the service.
ProcessWithAICalled ==
    /\ ai.at = "called"
    /\ ai' = IF ~ai.configured
             THEN [ai EXCEPT !.at = "returned",
                             !.result = Some(mockResponse(ai.text, ai.providedDob, ai.today, ai.zone))]
             ELSE [ai EXCEPT !.at = "generateContent", !.serviceCalls = ai.serviceCalls + 1]
    /\ UNCHANGED <<jobs, blobs, calls, tasks, log, writes, nextId, ocrModulesLoaded, responses, profile,
                   extracted, temp, chain>>

\* Lines 60-92: the service answers with a text, or the request fails and
\* the outer catch falls back to the local extractor.
GenerateContentDone(answer) ==
    /\ ai.at = "generateContent"
    /\ ai' = IF answer.ok
             THEN [ai EXCEPT !.at = "returned",
                             !.aiText = Some(answer.text),
                             !.jsonString = Some(jsonString(answer.text)),
                             !.result = Some(AfterResponse(answer.text, ai.providedDob, ai.today, ai.zone))]
             ELSE [ai EXCEPT !.at = "returned",
                             !.result = Some(mockResponse(ai.text, ai.providedDob, ai.today, ai.zone))]
    /\ UNCHANGED <<jobs, blobs, calls, tasks, log, writes, nextId, ocrModulesLoaded, responses, profile,
                   extracted, temp, chain>>

InitAI == InitWith({"ai"})

NextAI ==
    \/ ProcessWithAICalled
    \/ \E answer \in AiAnswers : GenerateContentDone(answer)

SpecAI == InitAI /\ [][NextAI]_vars

(***************************************************************************)
(* Properties of processWithAI.                                            *)
(***************************************************************************)

\* The fenced blocks of a text: an opening fence at b[1] and a closing
\* fence after it at b[2].
FencedBlocks(t) ==
    {b \in (1..Len(t)) \X (1..Len(t)) :
        /\ StartsWith(t, b[1], FenceOpen)
        /\ b[2] >= b[1] + Len(FenceOpen)
        /\ StartsWith(t, b[2], FenceClose)}

\* The text between the fences of the first fenced block, or the block with
\* its fences when there is nothing between them.
IsFirstFenced(t, chosen) ==
    \E b \in FencedBlocks(t) :
        /\ \A c \in FencedBlocks(t) : b[1] < c[1] \/ (b[1] = c[1] /\ b[2] <= c[2])
        /\ chosen = IF b[2] > b[1] + Len(FenceOpen)
                    THEN SubSeq(t, b[1] + Len(FenceOpen), b[2] - 1)
                    ELSE SubSeq(t, b[1], b[2] + Len(FenceClose) - 1)

\* The record is the parsed value, with its personalInfo.
IsParsedRecord(result, value) ==
    /\ IsObject(value)
    /\ result.type = value.type
    /\ DOMAIN result.value = DOMAIN value.value \cup {Chars("personalInfo")}
    /\ \A name \in DOMAIN value.value \ {Chars("personalInfo")} :
           result.value[name] = value.value[name]

\* The record has error set and the whole response as rawResponse.
IsErrorRecord(result, aiText) ==
    /\ result.type = "object"
    /\ Get(result, Chars("error")).type = "string"
    /\ Get(result, Chars("error")).value # <<>>
    /\ Get(result, Chars("rawResponse")) = String(aiText)

DateOfBirthOf(result) == Get(Get(result, Chars("personalInfo")), Chars("dateOfBirth"))

\* C19: in every record processWithAI returns (parsed answer, local
\* fallback, parse failure) personalInfo.dateOfBirth is the dob the caller
\* passed, whatever date the answer held.
C19_EveryRecordCarriesDob ==
    ai.at = "returned" => DateOfBirthOf(ai.result[1]) = String(ai.providedDob)

\* The number of items of an array, 0 - 1 for anything else.
Count(v) == IF v.type = "array" THEN Cardinality(DOMAIN v.value) ELSE 0 - 1

\* C20: without the key the AI service is never called; when the call to
\* the service raises, processWithAI still returns; in both cases the
\* record is the local extractor's: at most one email, one phone number
\* and one identification number, at most 5 dates and 3 addresses, the
\* caller's date of birth, and the note that it is mock data.
C20_LocalExtractorAnswers ==
    /\ ~ai.configured => ai.serviceCalls = 0
    /\ ai.at = "returned" /\ ai.aiText = None =>
           /\ ai.result # None
           /\ LET result == ai.result[1]
                  contactInfo == Get(result, Chars("contactInfo"))
              IN  /\ Count(Get(contactInfo, Chars("emails"))) \in 0..1
                  /\ Count(Get(contactInfo, Chars("phoneNumbers"))) \in 0..1
                  /\ Count(Get(result, Chars("identificationNumbers"))) \in 0..1
                  /\ Count(Get(result, Chars("keyDates"))) \in 0..5
                  /\ Count(Get(result, Chars("addresses"))) \in 0..3
                  /\ DateOfBirthOf(result) = String(ai.providedDob)
                  /\ Get(result, Chars("note")) =
                         String(Chars("Mock data - real AI processing requires GEMINI_API_KEY"))

\* The service raised on a text with more than five dates, and the record
\* holds five of them.
C20_Witness ==
    /\ ai.at = "returned"
    /\ ai.configured
    /\ ai.serviceCalls = 1
    /\ ai.aiText = None
    /\ Len(MatchesOfAll(datePatterns, ai.text)) > 5
    /\ Count(Get(ai.result[1], Chars("keyDates"))) = 5

(***************************************************************************)
(* Properties of the job record.                                           *)
(***************************************************************************)

\* C21: a job submitted with processingMethod ai whose record is completed
\* has a structured record (ai_extracted_data is not null), whether the
\* service answered with JSON, answered with text that does not parse,
\* raised, or was not configured.
C21_AiJobsHaveStructuredData ==
    \A j \in DOMAIN jobs :
        jobs[j].processing_method = "ai" /\ jobs[j].status = "completed" =>
            jobs[j].ai_extracted_data # None

\* A completed job whose record came from the parse-failure path, and one
\* whose record came from the local extractor.
C21_Witness ==
    \E j \in DOMAIN jobs :
        /\ jobs[j].processing_method = "ai"
        /\ jobs[j].status = "completed"
        /\ jobs[j].ai_extracted_data # None
        /\ jobs[j].ai_extracted_data[1].source = "unparsed"

\* C23: a job submitted with processingMethod standard never has a
\* structured record: ai_extracted_data is null while the task runs and
\* after it has finished.
C23_StandardJobsHaveNoStructuredData ==
    \A j \in DOMAIN jobs :
        jobs[j].processing_method = "standard" => jobs[j].ai_extracted_data = None

\* A standard job has been completed, with its text and without a
\* structured record.
C23_Witness ==
    \E j \in DOMAIN jobs :
        /\ jobs[j].processing_method = "standard"
        /\ jobs[j].status = "completed"
        /\ HasText(jobs[j].raw_text)
        /\ jobs[j].ai_extracted_data = None
        /\ tasks[j].pc = "done"

\* C24: a record has an error_message only if its status is failed; the
\* insert and the completion write leave it null.
C24_ErrorMessageOnlyOnFailed ==
    \A j \in DOMAIN jobs :
        jobs[j].error_message # None => jobs[j].status = "failed"

\* One record was failed with a message after its result write was
\* refused.
C24_Witness ==
    \E j \in DOMAIN jobs :
        /\ jobs[j].status = "failed"
        /\ jobs[j].error_message # None
        /\ tasks[j].writeFailed

\* The columns written at submission.
SubmissionColumns ==
    {"job_id", "file_url", "file_name", "mime_type", "first_name", "last_name",
     "date_of_birth", "processing_method", "created_at"}

\* C25: the completion write and the failure write leave job_id, file_url,
\* file_name, mime_type, first_name, last_name, date_of_birth,
\* processing_method and created_at as they were: after every step each
\* record holds in them the values the submission gave.
C25_SubmissionColumnsKept ==
    [][\A j \in DOMAIN jobs' :
          /\ jobs'[j].job_id = j
          /\ jobs'[j].file_url = calls'[j].fileUrl[1]
          /\ jobs'[j].file_name = calls'[j].params.file.originalname
          /\ jobs'[j].mime_type = calls'[j].params.file.mimetype
          /\ jobs'[j].first_name = calls'[j].params.userData.firstName
          /\ jobs'[j].last_name = calls'[j].params.userData.lastName
          /\ jobs'[j].date_of_birth = calls'[j].params.userData.dob
          /\ jobs'[j].processing_method = calls'[j].params.processingMethod
          /\ j \in DOMAIN jobs =>
                 \A column \in SubmissionColumns : jobs'[j][column] = jobs[j][column]]_vars

\* A record was written at one instant and completed at a later one.
C25_Witness ==
    \E j \in DOMAIN jobs :
        /\ jobs[j].status = "completed"
        /\ jobs[j].completed_at # None
        /\ jobs[j].completed_at[1] > jobs[j].created_at
        /\ writes[j] # <<>>

(***************************************************************************)
(* Properties of the text processWithAI parses.                            *)
(***************************************************************************)

\* The opening braces less the closing braces of t from i up to k.
Depth(t, i, k) ==
    Cardinality({m \in i..k : t[m] = 123}) - Cardinality({m \in i..k : t[m] = 125})

\* The first top-level object of t: from the first opening brace to the
\* closing brace that matches it; None when there is none.
FirstObject(t) ==
    LET opens == {i \in 1..Len(t) : t[i] = 123}
    IN  IF opens = {} THEN None
        ELSE LET first == MinOf(opens)
                 closes == {k \in first..Len(t) : Depth(t, first, k) = 0}
             IN  IF closes = {} THEN None
                 ELSE Some(SubSeq(t, first, MinOf(closes)))

\* C22: when the response has no fenced JSON block and holds an object in
\* prose, the text that is parsed is the first top-level object, from the
\* first opening brace to its matching closing brace, also when text with
\* braces follows it; the parsed object is what is returned.
C22_FirstObjectIsExtracted ==
    ai.at = "returned" /\ ai.aiText # None =>
        LET aiText == ai.aiText[1]
            object == FirstObject(aiText)
        IN  FencedBlocks(aiText) = {} /\ object # None =>
                /\ ai.jsonString[1] = object[1]
                /\ JsonParse(object[1]).ok =>
                       IsParsedRecord(ai.result[1], JsonParse(object[1]).value)

(***************************************************************************)
(* Properties of the OCR path when no page can be read.                    *)
(***************************************************************************)

\* The OCR engine failed on every page of the document.
EveryPageFailed(c) == Len(c.ocr) > 0 /\ \A k \in 1..Len(c.ocr) : ~c.ocr[k].ok

\* C29: when the OCR engine fails on every rasterized page, the output of
\* the OCR path, which holds the failure markers only, is not what
\* extractTextFromPDF returns: the fallback is started, and the result is
\* the fallback's text or the placeholder.
C29_MarkersAreNotTheText ==
    \A j \in DOMAIN chain :
        LET ch == chain[j]
        IN  /\ ch.at = "returned"
            /\ EveryPageFailed(ch.c)
            /\ ch.ocrOutcome # None
            /\ ch.ocrOutcome[1].ok
            => /\ Started(ch, "fallback")
               /\ ch.result[1] # cleanExtractedText(ch.ocrOutcome[1].text)

(***************************************************************************)
(* utils.js, aiProcessor.js: the two age functions on their own.           *)
(***************************************************************************)

\* calculateAge(dobString) of utils.js returns.
CalculateAge ==
    /\ ai.at = "age"
    /\ ai.age = None
    /\ ai' = [ai EXCEPT !.age = Some(calculateAge(NewDate(ai.dobString, ai.zone), ai.today))]
    /\ UNCHANGED <<jobs, blobs, calls, tasks, log, writes, nextId, ocrModulesLoaded, responses, profile,
                   extracted, temp, chain>>

\* calculateAgeFromDob(dobString) of aiProcessor.js returns.
CalculateAgeFromDob ==
    /\ ai.at = "age"
    /\ ai.ageFromDob = None
    /\ ai' = [ai EXCEPT !.ageFromDob =
                            Some(calculateAgeFromDob(ai.dobString, ai.today, ai.zone))]
    /\ UNCHANGED <<jobs, blobs, calls, tasks, log, writes, nextId, ocrModulesLoaded, responses, profile,
                   extracted, temp, chain>>

InitAge == InitWith({"age"})

NextAge == CalculateAge \/ CalculateAgeFromDob

SpecAge == InitAge /\ [][NextAge]_vars

\* The difference of the years, less one when the day of the year of
\* today is before that of the birth.
AgeOn(born, today) ==
    (today.y - born.y)
        - (IF today.m < born.m \/ (today.m = born.m /\ today.d < born.d) THEN 1 ELSE 0)

\* C27: for every date of birth and every day, the age computed by
\* calculateAge and by calculateAgeFromDob is the difference of the years,
\* reduced by one exactly when today's (month, day) is strictly before the
\* (month, day) of the birth; on the birthday the year counts.
C27_AgeByCalendar ==
    ai.at = "age" =>
        /\ ai.age # None => ai.age[1] = AgeOn(ai.born, ai.today)
        /\ ai.ageFromDob # None => ai.ageFromDob[1] = AgeOn(ai.born, ai.today)

(***************************************************************************)
(* Properties of the results routes.                                       *)
(***************************************************************************)

\* C26: a delete request for a job that exists answers that the job was
\* deleted, and from then on the job cannot be read and is not listed; a
\* delete request for a job that does not exist, such as a second delete of
\* the same job, answers that there is no such job.
C26_DeleteRemovesTheJob ==
    \A i \in DOMAIN responses :
        responses[i].route = "delete"
            => /\ responses[i].status = (IF responses[i].existed THEN 200 ELSE 404)
               /\ responses[i].existed
                     => /\ getProcessingResult(jobs, responses[i].jobId) = None
                        /\ responses[i].jobId \notin Listed(jobs)

\* C28: the document request for a job that exists is answered with the
\* fileUrl, fileName and mimeType stored at submission; "Document not found"
\* is answered only when no job with that id exists.
C28_DocumentIsServed ==
    \A i \in DOMAIN responses :
        responses[i].route = "document"
            => LET j == responses[i].jobId
               IN  IF responses[i].existed
                   THEN /\ responses[i].status = 200
                        /\ responses[i].body =
                              [fileUrl |-> Some(calls[j].fileUrl[1]),
                               fileName |-> Some(calls[j].params.file.originalname),
                               mimeType |-> Some(calls[j].params.file.mimetype)]
                   ELSE /\ responses[i].status = 404
                        /\ responses[i].body = [error |-> "Document not found"]

(***************************************************************************)
(* Progress of the tasks.  One step of job j's task is the settling of the *)
(* call it awaits; the calls to the Job Store made by the task succeed.    *)
(* The task of the first job is run whenever the call it awaits has        *)
(* settled.  The tasks of the other jobs are promised nothing: each may    *)
(* run, or stop at any await and never go on.  A submission that fails     *)
(* returns no jobId and starts no task, so the submissions followed here   *)
(* are those whose upload and insert succeed.                              *)
(***************************************************************************)

TaskStep(j) ==
    \/ \E c \in PdfInputs, today \in Todays, now \in Instants :
          TryStandardExtractionDone(j, c, today, now)
    \/ \E stamp \in Stamps, later \in Stamps : CheckDiskSpaceDone(j, stamp, later)
    \/ ConvertDone(j)
    \/ ConvertAltDone(j)
    \/ \E today \in Todays, now \in Instants : RecognizeDone(j, today, now)
    \/ \E today \in Todays, now \in Instants : AlternativeOCRDone(j, today, now)
    \/ \E today \in Todays, now \in Instants : ExtractTextFallbackDone(j, today, now)
    \/ \E engine \in ImageInputs, today \in Todays, now \in Instants :
          ExtractTextFromImageDone(j, engine, today, now)
    \/ \E a \in AiInputs, today \in Todays, now \in Instants :
          ProcessWithAIDone(j, a, today, now)
    \/ UpdateProcessingResultsDone(j, TRUE)
    \/ UpdateFailedDone(j, "written")

InitLive == InitWith({"live"})

NextLive ==
    \/ \E params \in Submissions : ProcessDocument(params)
    \/ \E c \in Ids : StoreFileDone(c, TRUE)
    \/ \E c \in Ids, now \in Instants : StoreDocumentMetadataDone(c, TRUE, now)
    \/ \E j \in Ids : TaskStep(j)

\* The event loop runs a task whose awaited call has settled.
Fairness == WF_vars(TaskStep(1))

SpecLive == InitLive /\ [][NextLive]_vars /\ Fairness

SubmitReturnedJobId(j) ==
    j \in DOMAIN calls /\ calls[j].pc = "returned" /\ calls[j].result = Some(<<"jobId", j>>)

\* C30: a job whose submission returned its jobId, and whose task is run
\* whenever the call it awaits has settled, eventually has the status
\* completed or failed, whether the tasks of the other jobs go on or stop
\* for ever at any of their awaits.
C30_EveryJobEnds ==
    SubmitReturnedJobId(1) ~> (1 \in DOMAIN jobs /\ jobs[1].status \in TerminalStatuses)

C30_Witness ==
    /\ 1 \in DOMAIN jobs
    /\ jobs[1].status \in TerminalStatuses
    /\ \E k \in DOMAIN chain : k # 1 /\ chain[k].at = "recognize"
====
